---- MODULE Spec2Model ----
(***************************************************************************)
(* Verification model of the RAG chatbot core of the K-Startup grant       *)
(* assistant (src/rag_system.py): deadline analysis, amount parsing,       *)
(* amount-condition extraction, priority reranking, confidence estimation  *)
(* and the bounded conversation memory.                                    *)
(*                                                                         *)
(* The module holds one group of variables per component.  Each component  *)
(* has its own specification; a specification leaves the variables of the  *)
(* other components at their idle values.                                  *)
(***************************************************************************)
EXTENDS Integers, Sequences, FiniteSets, TLC

VARIABLES
    conversation_memory,   \* RAGChatbot.conversation_memory: list of turns
    appended,              \* the (user_query, response, time) of the append calls since the memory was last empty
    clock,                 \* datetime.now() seen by the memory: number of appends so far
    memory_report,         \* what the last memory operation returned: a summary, a status, or None
    update_calls,          \* per thread, where its call of _update_conversation_memory stands and the entry it built
    application_period,    \* metadata["application_period"] handed to the deadline analyzer
    now,                   \* datetime.now(kst): the wall clock in KST
    deadline_info,         \* the dict last returned by _analyze_deadline_status, None before the first call
    earlier_info,          \* the dict returned by the call before that one, None before the second call
    search_results,        \* the candidate list handed to _calculate_confidence
    confidence,            \* the value last returned by _calculate_confidence, None before the first call
    input_text,            \* the text handed to _normalize_amount
    amount_info,           \* the dict last returned by _normalize_amount, None before the first call
    input_query,           \* the query handed to _extract_amount_condition_from_query
    amount_condition,      \* the dict last returned by the extractor, None before the first call
    store_index,           \* the vector store as the query sees it: None when the store fails, else its matches in similarity order
    search_request,        \* top_k, user_query and clock of the call of _search_with_application_priority
    final_results,         \* the list last returned by _search_with_application_priority, None before the first call
    query_top_k,           \* the top_k last received by index.query, None when no query was answered
    openai_client,         \* RAGChatbot.openai_client is set (an API key was configured)
    chat_history,          \* RAGChatbot.chat_history
    last_call,             \* what the last call of get_response met: its query and the outcomes of the embedder and the model
    last_result,           \* the dict last returned by get_response, None before the first call
    rag_chatbot,           \* the module global _rag_chatbot: None, or the reference of the instance it holds
    chatbots,              \* the RAGChatbot instances created so far, each by its conversation_memory
    session_context,       \* per browser session, the turns of the conversation context built for its last question
    session_op,            \* the last operation on the chatbot page: its session, its kind and the memories before it
    announcements,         \* all_data_sources of the ingestion: the announcement records, in order
    vector_store,          \* the vectors held by the Pinecone index, in order of first insertion
    ingest_result,         \* what the last ingestion returned and did, None before the first run
    first_store            \* the vectors held after the first ingestion that succeeded, None before it

memVars == <<conversation_memory, appended, clock, memory_report, update_calls>>
dlVars == <<application_period, now, deadline_info, earlier_info>>
confVars == <<search_results, confidence>>
normVars == <<input_text, amount_info>>
condVars == <<input_query, amount_condition>>
rerankVars == <<store_index, search_request, final_results, query_top_k>>
chatVars == <<openai_client, chat_history, last_call, last_result>>
sessVars == <<rag_chatbot, chatbots, session_context, session_op>>
ingestVars == <<announcements, vector_store, ingest_result, first_store>>

vars == <<memVars, dlVars, confVars, normVars, condVars, rerankVars, chatVars, sessVars,
          ingestVars>>

(***************************************************************************)
(* Bounds                                                                  *)
(***************************************************************************)
MaxAppends == 7

(***************************************************************************)
(* ConversationMemory  (RAGChatbot.__init__, _update_conversation_memory,  *)
(* clear_conversation_memory, get_conversation_summary, get_memory_status) *)
(***************************************************************************)
max_memory_turns == 5

UserQueries == {"q1", "q2"}
Responses == {"r1", "r2"}

Min(a, b) == IF a <= b THEN a ELSE b

\* the last n elements of s, Python's s[-n:] for 0 < n
LastN(s, n) == IF Len(s) <= n THEN s ELSE SubSeq(s, Len(s) - n + 1, Len(s))

\* Python's None and a present value
None == <<>>
Some(x) == <<x>>

\* a slip of the renumbering: the index of enumerate is stored as it is
RenumberFromZero(mem) == [i \in 1..Len(mem) |-> [mem[i] EXCEPT !.turn = i - 1]]

\* for i, memory in enumerate(mem): memory["turn"] = i + 1
Renumber(mem) == [i \in 1..Len(mem) |-> [mem[i] EXCEPT !.turn = i]]

\* a slip of the eviction: the slice is taken but the turns keep their old numbers
UpdateConversationMemoryNoRenumber(mem, user_query, response, ts) ==
    LET memory_entry == [user_query |-> user_query,
                         response   |-> response,
                         timestamp  |-> ts,
                         turn       |-> Len(mem) + 1]
        grown == Append(mem, memory_entry)
    IN  IF Len(grown) > max_memory_turns
        THEN LastN(grown, max_memory_turns)
        ELSE grown

\* a slip of the degraded paths: only an answer of the model is remembered
UpdateConversationMemoryOnlyLlm(mem, user_query, response, ts) ==
    LET memory_entry == [user_query |-> user_query,
                         response   |-> response,
                         timestamp  |-> ts,
                         turn       |-> Len(mem) + 1]
        grown == Append(mem, memory_entry)
    IN  IF response.kind # "llm" THEN mem
        ELSE IF Len(grown) > max_memory_turns
        THEN Renumber(LastN(grown, max_memory_turns))
        ELSE grown

\* _update_conversation_memory: the value of self.conversation_memory afterwards
UpdateConversationMemory(mem, user_query, response, ts) ==
    LET memory_entry == [user_query |-> user_query,
                         response   |-> response,
                         timestamp  |-> ts,
                         turn       |-> Len(mem) + 1]
        grown == Append(mem, memory_entry)
    IN  IF Len(grown) > max_memory_turns
        THEN Renumber(LastN(grown, max_memory_turns))
        ELSE grown

MemAppend ==
    /\ clock < MaxAppends
    /\ \E q \in UserQueries, r \in Responses :
         /\ conversation_memory' = UpdateConversationMemory(conversation_memory, q, r, clock + 1)
         /\ appended' = Append(appended, <<q, r, clock + 1>>)
    /\ clock' = clock + 1
    /\ memory_report' = None
    /\ UNCHANGED update_calls
    /\ UNCHANGED <<dlVars, confVars, normVars, condVars, rerankVars, chatVars, sessVars, ingestVars>>

\* clear_conversation_memory: the memory is emptied; a new sequence of appends starts
MemClear ==
    /\ conversation_memory' = <<>>
    /\ appended' = <<>>
    /\ memory_report' = None
    /\ UNCHANGED <<clock, update_calls>>
    /\ UNCHANGED <<dlVars, confVars, normVars, condVars, rerankVars, chatVars, sessVars, ingestVars>>

\* get_conversation_summary: the count and one line per turn (its number and the
\* first 50 characters of its query; the queries here are shorter)
MemSummary ==
    /\ memory_report' =
           Some([kind |-> "summary",
                 total |-> Len(conversation_memory),
                 lines |-> [i \in 1..Len(conversation_memory) |->
                              <<conversation_memory[i].turn,
                                conversation_memory[i].user_query>>]])
    /\ UNCHANGED <<conversation_memory, appended, clock, update_calls>>
    /\ UNCHANGED <<dlVars, confVars, normVars, condVars, rerankVars, chatVars, sessVars, ingestVars>>

\* get_memory_status
MemStatus ==
    /\ memory_report' =
           Some([kind |-> "status",
                 total_conversations |-> Len(conversation_memory),
                 max_memory_turns |-> max_memory_turns,
                 memory_usage |-> <<Len(conversation_memory), max_memory_turns>>,
                 oldest_conversation |->
                     IF conversation_memory # <<>>
                     THEN Some(conversation_memory[1].timestamp) ELSE None,
                 latest_conversation |->
                     IF conversation_memory # <<>>
                     THEN Some(conversation_memory[Len(conversation_memory)].timestamp)
                     ELSE None])
    /\ UNCHANGED <<conversation_memory, appended, clock, update_calls>>
    /\ UNCHANGED <<dlVars, confVars, normVars, condVars, rerankVars, chatVars, sessVars, ingestVars>>

MemNext == MemAppend \/ MemClear \/ MemSummary \/ MemStatus

\* ---- two calls of _update_conversation_memory on one chatbot ----
\* Streamlit runs the script of every browser session in a thread of its own and
\* get_rag_chatbot hands all of them the same RAGChatbot; the method takes no
\* lock, so another thread may run between its statements.
Threads == {"t1", "t2"}

\* lines 989-994: the entry is built, its turn number from the length read now
UpdBuildEntry(t) ==
    /\ update_calls[t].pc = "called"
    /\ \E q \in UserQueries :
         update_calls' = [update_calls EXCEPT ![t] =
             [pc |-> "built",
              memory_entry |-> Some([user_query |-> q, response |-> "r1",
                                     timestamp |-> clock + 1,
                                     turn |-> Len(conversation_memory) + 1])]]
    /\ clock' = clock + 1
    /\ UNCHANGED <<conversation_memory, appended, memory_report>>

\* line 996: self.conversation_memory.append(memory_entry)
UpdAppendEntry(t) ==
    /\ update_calls[t].pc = "built"
    /\ conversation_memory' = Append(conversation_memory, update_calls[t].memory_entry[1])
    /\ appended' = Append(appended, <<update_calls[t].memory_entry[1].user_query,
                                      update_calls[t].memory_entry[1].response,
                                      update_calls[t].memory_entry[1].timestamp>>)
    /\ update_calls' = [update_calls EXCEPT ![t].pc = "appended"]
    /\ UNCHANGED <<clock, memory_report>>

\* lines 999-1003: the cut to the last max_memory_turns turns and the renumbering
UpdTrim(t) ==
    /\ update_calls[t].pc = "appended"
    /\ conversation_memory' =
           IF Len(conversation_memory) > max_memory_turns
           THEN Renumber(LastN(conversation_memory, max_memory_turns))
           ELSE conversation_memory
    /\ update_calls' = [update_calls EXCEPT ![t].pc = "returned"]
    /\ UNCHANGED <<appended, clock, memory_report>>

UpdNext ==
    /\ \E t \in Threads : UpdBuildEntry(t) \/ UpdAppendEntry(t) \/ UpdTrim(t)
    /\ UNCHANGED <<dlVars, confVars, normVars, condVars, rerankVars, chatVars, sessVars, ingestVars>>

(***************************************************************************)
(* DeadlineAnalyzer  (PineconeManager._analyze_deadline_status; the copy   *)
(* RAGChatbot._analyze_deadline_status, lines 504-608, is identical)       *)
(***************************************************************************)
\* calendar.isleap
IsLeap(y) == (y % 4 = 0) /\ ((y % 100 # 0) \/ (y % 400 = 0))

DaysInMonth(y, m) ==
    IF m = 2 THEN (IF IsLeap(y) THEN 29 ELSE 28)
    ELSE IF m \in {4, 6, 9, 11} THEN 30 ELSE 31

\* datetime(year, month, day, ...) raises ValueError unless this holds
ValidDate(y, m, d) ==
    /\ y >= 1 /\ y <= 9999
    /\ m >= 1 /\ m <= 12
    /\ d >= 1 /\ d <= DaysInMonth(y, m)

RECURSIVE DaysBeforeMonth(_, _)
DaysBeforeMonth(y, m) ==
    IF m <= 1 THEN 0 ELSE DaysBeforeMonth(y, m - 1) + DaysInMonth(y, m - 1)

\* date.toordinal: 0001-01-01 is day 1
ToOrdinal(y, m, d) ==
    LET py == y - 1
    IN  365 * py + (py \div 4) - (py \div 100) + (py \div 400)
        + DaysBeforeMonth(y, m) + d

\* timedelta(days, seconds, microseconds).days after normalisation:
\* microseconds are carried into seconds and seconds into days, flooring
TimedeltaDays(days, seconds, microseconds) ==
    LET s == seconds + (microseconds \div 1000000)
    IN  days + (s \div 86400)

\* a slip of the subtraction: now - deadline
DaysDiffFromDeadline(y, m, d, t) ==
    TimedeltaDays(ToOrdinal(t.year, t.month, t.day) - ToOrdinal(y, m, d),
                  t.second - 86399, t.microsecond)

\* (deadline - now).days with deadline = datetime(y, m, d, 23, 59, 59, tzinfo=kst)
\* and now = datetime.now(kst); t.second counts the seconds since midnight
DaysDiff(y, m, d, t) ==
    TimedeltaDays(ToOrdinal(y, m, d) - ToOrdinal(t.year, t.month, t.day),
                  86399 - t.second, 0 - t.microsecond)

\* a slip of the status chain: the deadline day itself counted as expired
StatusOfDayZeroExpired(days_diff) ==
    IF days_diff <= 0 THEN "expired"
    ELSE IF days_diff <= 3 THEN "urgent"
    ELSE IF days_diff <= 7 THEN "soon"
    ELSE "active"

\* the if/elif chain that sets deadline_info["status"]
StatusOf(days_diff) ==
    IF days_diff < 0 THEN "expired"
    ELSE IF days_diff = 0 THEN "today"
    ELSE IF days_diff <= 3 THEN "urgent"
    ELSE IF days_diff <= 7 THEN "soon"
    ELSE "active"

DefaultDeadlineInfo ==
    [status         |-> "unknown",
     days_remaining |-> None,
     deadline_date  |-> None,
     is_expired     |-> FALSE,
     is_urgent      |-> FALSE]

\* deadline_info after update({...}) and the status chain
DeadlineInfoFor(y, m, d, t) ==
    LET days_diff == DaysDiff(y, m, d, t)
    IN  [status         |-> StatusOf(days_diff),
         days_remaining |-> Some(days_diff),
         deadline_date  |-> Some([year |-> y, month |-> m, day |-> d]),
         is_expired     |-> days_diff < 0,
         is_urgent      |-> (0 <= days_diff) /\ (days_diff <= 3)]

\* a slip of the analyzer: the dotted pattern is tried before the 8-digit one
AnalyzeDeadlineStatusDotFirst(period, t) ==
    IF period.empty THEN DefaultDeadlineInfo
    ELSE IF period.dot # None
            /\ ValidDate(period.dot[1].ey, period.dot[1].em, period.dot[1].ed)
    THEN DeadlineInfoFor(period.dot[1].ey, period.dot[1].em, period.dot[1].ed, t)
    ELSE IF period.ymd8 # None
            /\ ValidDate(period.ymd8[1].end \div 10000, (period.ymd8[1].end \div 100) % 100,
                         period.ymd8[1].end % 100)
    THEN DeadlineInfoFor(period.ymd8[1].end \div 10000, (period.ymd8[1].end \div 100) % 100,
                         period.ymd8[1].end % 100, t)
    ELSE DefaultDeadlineInfo

\* An application_period string is modelled by what the two regular
\* expressions find in it:
\*   empty : the string is empty
\*   ymd8  : None, or the two 8-digit tokens of the first (\d{8})\s*~\s*(\d{8}) match
\*   dot   : None, or the six digit groups of the first YYYY.M.D ~ YYYY.M.D match
AnalyzeDeadlineStatus(period, t) ==
    IF period.empty THEN DefaultDeadlineInfo
    ELSE LET Ymd8Year(tok) == tok \div 10000          \* int(end_date_str[:4])
             Ymd8Month(tok) == (tok \div 100) % 100   \* int(end_date_str[4:6])
             Ymd8Day(tok) == tok % 100                \* int(end_date_str[6:8])
             ymd8ok == /\ period.ymd8 # None
                       /\ ValidDate(Ymd8Year(period.ymd8[1].end),
                                    Ymd8Month(period.ymd8[1].end),
                                    Ymd8Day(period.ymd8[1].end))
             dotok  == /\ period.dot # None
                       /\ ValidDate(period.dot[1].ey, period.dot[1].em, period.dot[1].ed)
         IN  IF ymd8ok
             THEN DeadlineInfoFor(Ymd8Year(period.ymd8[1].end),
                                  Ymd8Month(period.ymd8[1].end),
                                  Ymd8Day(period.ymd8[1].end), t)
             ELSE IF dotok
             THEN DeadlineInfoFor(period.dot[1].ey, period.dot[1].em, period.dot[1].ed, t)
             ELSE DefaultDeadlineInfo


\* ---- inputs of the deadline analyzer ----
NowFirstDay == 8
NowSpan == 3

Period8(start, end) ==
    [empty |-> FALSE, ymd8 |-> Some([start |-> start, end |-> end]), dot |-> None]
PeriodDot(sy, sm, sd, ey, em, ed) ==
    [empty |-> FALSE, ymd8 |-> None,
     dot |-> Some([sy |-> sy, sm |-> sm, sd |-> sd, ey |-> ey, em |-> em, ed |-> ed])]
\* the empty string
PeriodEmpty == [empty |-> TRUE, ymd8 |-> None, dot |-> None]
\* free text without a date range
PeriodText == [empty |-> FALSE, ymd8 |-> None, dot |-> None]
\* a string such as "20250101 ~ 20250132 (2025.1.1 ~ 2025.1.31)" that both patterns match
PeriodBoth(start, end, sy, sm, sd, ey, em, ed) ==
    [empty |-> FALSE, ymd8 |-> Some([start |-> start, end |-> end]),
     dot |-> Some([sy |-> sy, sm |-> sm, sd |-> sd, ey |-> ey, em |-> em, ed |-> ed])]

Periods ==
    { PeriodEmpty, PeriodText,
      Period8(20241201, 20241231),
      Period8(20250101, 20250108),
      Period8(20250101, 20250110),
      Period8(20250101, 20250111),
      Period8(20250101, 20250113),
      Period8(20250101, 20250114),
      Period8(20250101, 20250117),
      Period8(20250101, 20250118),
      Period8(20250101, 20250228),
      Period8(20250101, 20250132),
      Period8(20250101, 20251301),
      Period8(20240201, 20240229),
      Period8(20250201, 20250229),
      PeriodDot(2025, 1, 1, 2025, 1, 10),
      PeriodDot(2025, 1, 1, 2025, 1, 15),
      PeriodDot(2025, 1, 1, 2025, 2, 30),
      PeriodBoth(20250101, 20250132, 2025, 1, 1, 2025, 1, 31),
      PeriodBoth(20250101, 20250112, 2025, 1, 1, 2025, 1, 31),
      PeriodBoth(20250101, 20250132, 2025, 1, 1, 2025, 2, 30) }

\* the readings of the clock: 2024-12-31 and the days of January 2025 from
\* NowFirstDay on, each at 00:00:00, 09:00:00, 23:59:59 and 23:59:59.5
Nows ==
    LET TimesOfDay ==
            { [second |-> 0, microsecond |-> 0],
              [second |-> 32400, microsecond |-> 0],
              [second |-> 86399, microsecond |-> 0],
              [second |-> 86399, microsecond |-> 500000] }
        NowDates ==
            { [year |-> 2024, month |-> 12, day |-> 31] }
            \cup { [year |-> 2025, month |-> 1, day |-> d] :
                      d \in NowFirstDay..(NowFirstDay + NowSpan) }
    IN  { [year |-> dt.year, month |-> dt.month, day |-> dt.day,
           second |-> tod.second, microsecond |-> tod.microsecond] :
          dt \in NowDates, tod \in TimesOfDay }

\* t1 is not later than t2
NotLater(t1, t2) ==
    LET o1 == ToOrdinal(t1.year, t1.month, t1.day)
        o2 == ToOrdinal(t2.year, t2.month, t2.day)
    IN  \/ o1 < o2
        \/ o1 = o2 /\ t1.second < t2.second
        \/ o1 = o2 /\ t1.second = t2.second /\ t1.microsecond <= t2.microsecond

\* one evaluation: the clock is read (time may have advanced since the last
\* evaluation) and the status is computed afresh from the raw period string
DlAnalyze ==
    /\ \E t \in Nows :
         /\ NotLater(now, t)
         /\ now' = t
         /\ deadline_info' = Some(AnalyzeDeadlineStatus(application_period, t))
    /\ earlier_info' = deadline_info
    /\ UNCHANGED application_period
    /\ UNCHANGED <<memVars, confVars, normVars, condVars, rerankVars, chatVars,
                 sessVars, ingestVars>>

(***************************************************************************)
(* Text and regular expressions.                                           *)
(* A text is a sequence of characters.  Digits, "," , "~" and " " stand    *)
(* for themselves; a Hangul syllable is written by its romanisation:       *)
(*   jo 조  eok 억  man 만  cheon 천  baek 백  sip 십  su 수  won 원       *)
(*   il 일  i 이  sam 삼  sa 사  o 오  yuk 육  chil 칠  pal 팔  gu 구      *)
(*   choe 최  dae 대  go 고  so 소  jeo 저  yak 약  ryak 략  chong 총      *)
(*   jeon 전  che 체  gyu 규  mo 모  sang 상  ui 의  ji 지                 *)
(* and "x" is any character no pattern mentions.                           *)
(* A pattern is a sequence of items; one item is a run of dmin..dmax       *)
(* characters of the class cs (dunb: no upper limit), followed, when the   *)
(* item is a number with thousands separators, by at least cmin groups     *)
(* ",ddd" (cunb: such groups are allowed).  Items are matched greedily     *)
(* with backtracking, in the order Python's re module tries them.          *)
(***************************************************************************)
DigitChars == {"0", "1", "2", "3", "4", "5", "6", "7", "8", "9"}

DigitVal(c) ==
    CASE c = "0" -> 0 [] c = "1" -> 1 [] c = "2" -> 2 [] c = "3" -> 3 [] c = "4" -> 4
      [] c = "5" -> 5 [] c = "6" -> 6 [] c = "7" -> 7 [] c = "8" -> 8 [] c = "9" -> 9

Item(cs, dmin, dmax, dunb, cmin, cunb) ==
    [cs |-> cs, dmin |-> dmin, dmax |-> dmax, dunb |-> dunb, cmin |-> cmin, cunb |-> cunb]

Lit(c) == Item({c}, 1, 1, FALSE, 0, FALSE)              \* one literal character
Opt(cs) == Item(cs, 0, 1, FALSE, 0, FALSE)              \* c? or (a|b|c)?
Ws == Item({" "}, 0, 0, TRUE, 0, FALSE)                 \* \s*
NumPlus == Item(DigitChars, 1, 0, TRUE, 0, FALSE)       \* \d+
NumSep(dmax) == Item(DigitChars, 1, dmax, FALSE, 0, TRUE)  \* \d{1,dmax}(?:,\d{3})*
NumPlusSep == Item(DigitChars, 1, 0, TRUE, 0, TRUE)     \* \d+(?:,\d{3})*

RECURSIVE Run(_, _, _)
\* the number of consecutive characters of cs in text from position pos on
Run(text, pos, cs) ==
    IF pos <= Len(text) /\ text[pos] \in cs THEN 1 + Run(text, pos + 1, cs) ELSE 0

RECURSIVE CommaGroups(_, _)
\* the number of consecutive groups ",ddd" in text from position p on
CommaGroups(text, p) ==
    IF /\ p + 3 <= Len(text)
       /\ text[p] = ","
       /\ text[p + 1] \in DigitChars
       /\ text[p + 2] \in DigitChars
       /\ text[p + 3] \in DigitChars
    THEN 1 + CommaGroups(text, p + 4)
    ELSE 0

\* the ends an item can reach once its run ends before position p, longest first
GroupEnds(it, text, p) ==
    IF ~it.cunb THEN <<p>>
    ELSE LET g == CommaGroups(text, p)
         IN  [j \in 1..(IF g >= it.cmin THEN g - it.cmin + 1 ELSE 0) |-> p + 4 * (g - j + 1)]

RECURSIVE RunEnds(_, _, _, _)
\* the ends an item can reach with a run of d, d-1, ..., dmin characters
RunEnds(it, text, pos, d) ==
    IF d < it.dmin THEN <<>>
    ELSE GroupEnds(it, text, pos + d) \o RunEnds(it, text, pos, d - 1)

\* every position at which item it, started at pos, can end, in the order of preference
ItemEnds(it, text, pos) ==
    LET run == Run(text, pos, it.cs)
        top == IF it.dunb THEN run ELSE Min(run, it.dmax)
    IN  RunEnds(it, text, pos, top)

NoMatch == [ok |-> FALSE, start |-> 0, ends |-> <<>>]

RECURSIVE MatchAt(_, _, _, _)
RECURSIVE TryEnds(_, _, _, _, _)
\* items i.. of the pattern matched at pos: the end of every item, or NoMatch
MatchAt(items, i, text, pos) ==
    IF i > Len(items) THEN [ok |-> TRUE, start |-> pos, ends |-> <<>>]
    ELSE TryEnds(items, i, text, ItemEnds(items[i], text, pos), 1)

TryEnds(items, i, text, cands, j) ==
    IF j > Len(cands) THEN NoMatch
    ELSE LET r == MatchAt(items, i + 1, text, cands[j])
         IN  IF r.ok THEN [ok |-> TRUE, start |-> 0, ends |-> <<cands[j]>> \o r.ends]
             ELSE TryEnds(items, i, text, cands, j + 1)

RECURSIVE Search(_, _, _)
\* re.search from position from: the leftmost match
Search(items, text, from) ==
    IF from > Len(text) + 1 THEN NoMatch
    ELSE LET r == MatchAt(items, 1, text, from)
         IN  IF r.ok THEN [ok |-> TRUE, start |-> from, ends |-> r.ends]
             ELSE Search(items, text, from + 1)

MatchEnd(m) == m.ends[Len(m.ends)]

RECURSIVE FindIter(_, _, _)
\* re.finditer: the successive non-overlapping matches, left to right
FindIter(items, text, from) ==
    LET m == Search(items, text, from)
    IN  IF ~m.ok THEN <<>>
        ELSE <<m>> \o FindIter(items, text,
                               IF MatchEnd(m) > m.start THEN MatchEnd(m) ELSE m.start + 1)

\* match.group(0)
MatchText(m, text) == SubSeq(text, m.start, MatchEnd(m) - 1)

\* the text matched by items a..b of the pattern (a capture group)
GroupText(m, text, a, b) ==
    SubSeq(text, IF a = 1 THEN m.start ELSE m.ends[a - 1], m.ends[b] - 1)

RECURSIVE ParseIntFrom(_, _, _)
ParseIntFrom(chars, i, acc) ==
    IF i > Len(chars) THEN acc
    ELSE IF chars[i] = "," THEN ParseIntFrom(chars, i + 1, acc)
    ELSE ParseIntFrom(chars, i + 1, acc * 10 + DigitVal(chars[i]))

\* int(s.replace(',', ''))
ParseInt(chars) == ParseIntFrom(chars, 1, 0)

(***************************************************************************)
(* Amounts in won.  Python integers are unbounded; an amount is kept as    *)
(* hi * 10^8 + lo with 0 <= lo < 10^8, so hi counts whole 억.              *)
(***************************************************************************)
RECURSIVE Pow10(_)
Pow10(k) == IF k = 0 THEN 1 ELSE 10 * Pow10(k - 1)

Amt(hi, lo) == [hi |-> hi, lo |-> lo]
AmtZero == Amt(0, 0)

\* n * 10^k
MulPow10(n, k) ==
    IF k >= 8 THEN Amt(n * Pow10(k - 8), 0)
    ELSE Amt(n \div Pow10(8 - k), (n % Pow10(8 - k)) * Pow10(k))

AmtGT(a, b) == (a.hi > b.hi) \/ (a.hi = b.hi /\ a.lo > b.lo)
AmtGE(a, b) == (a.hi > b.hi) \/ (a.hi = b.hi /\ a.lo >= b.lo)

(***************************************************************************)
(* AmountNormalizer  (_normalize_amount, _korean_to_number)                *)
(* amount types: max 최대, min 최소, approx 약, total 총, scale 규모,      *)
(* exact 정확, none (the empty text)                                       *)
(***************************************************************************)
\* one entry of the list `patterns`: the regular expression, its converter
\* (mul: int(group ga..gb) * 10^k; const: value; korean: _korean_to_number(group) * 10^k)
\* and its unit label
Pat(items, conv, ga, gb, k, value, unit) ==
    [items |-> items, conv |-> conv, ga |-> ga, gb |-> gb, k |-> k, value |-> value, unit |-> unit]

KoreanDigitChars == {"il", "i", "sam", "sa", "o", "yuk", "chil", "pal", "gu"}

AmountPatterns ==
    LET UnitTail(c) == <<Ws, Lit(c), Ws, Opt({"won"})>>                \* \s*C\s*원?
        UnitTail2(c1, c2) == <<Ws, Lit(c1), Ws, Lit(c2), Ws, Opt({"won"})>>
        Word2(c1, c2) == <<Lit(c1), Ws, Lit(c2), Ws, Opt({"won"})>>    \* C1\s*C2\s*원?
        Word3(c1, c2, c3) == <<Lit(c1), Ws, Lit(c2), Ws, Lit(c3), Ws, Opt({"won"})>>
    IN  << Pat(<<NumSep(4)>> \o UnitTail("jo"), "mul", 1, 1, 12, AmtZero, "jo-won"),
           Pat(<<NumPlus>> \o UnitTail2("cheon", "jo"), "mul", 1, 1, 15, AmtZero, "cheon-jo-won"),
           Pat(Word2("cheon", "jo"), "const", 0, 0, 0, Amt(10000000, 0), "cheon-jo-won"),
           Pat(<<NumSep(4)>> \o UnitTail("eok"), "mul", 1, 1, 8, AmtZero, "eok-won"),
           Pat(<<NumPlus>> \o UnitTail2("cheon", "eok"), "mul", 1, 1, 11, AmtZero, "cheon-eok-won"),
           Pat(Word2("cheon", "eok"), "const", 0, 0, 0, Amt(1000, 0), "cheon-eok-won"),
           Pat(<<NumSep(4)>> \o UnitTail("man"), "mul", 1, 1, 4, AmtZero, "man-won"),
           Pat(<<NumPlus>> \o UnitTail2("cheon", "man"), "mul", 1, 1, 7, AmtZero, "cheon-man-won"),
           Pat(Word2("cheon", "man"), "const", 0, 0, 0, Amt(0, 10000000), "cheon-man-won"),
           Pat(<<NumPlus>> \o UnitTail2("baek", "man"), "mul", 1, 1, 6, AmtZero, "baek-man-won"),
           Pat(Word2("baek", "man"), "const", 0, 0, 0, Amt(0, 1000000), "baek-man-won"),
           Pat(<<Item(DigitChars, 1, 3, FALSE, 1, TRUE), Ws, Lit("won")>>,   \* \d{1,3}(?:,\d{3})+
               "mul", 1, 1, 0, AmtZero, "won"),
           Pat(<<Item(DigitChars, 7, 0, TRUE, 0, FALSE), Ws, Lit("won")>>,   \* \d{7,}
               "mul", 1, 1, 0, AmtZero, "won"),
           Pat(Word3("su", "sip", "eok"), "const", 0, 0, 0, Amt(500, 0), "su-sip-eok-won"),
           Pat(Word3("su", "baek", "eok"), "const", 0, 0, 0, Amt(5000, 0), "su-baek-eok-won"),
           Pat(Word3("su", "cheon", "eok"), "const", 0, 0, 0, Amt(50000, 0), "su-cheon-eok-won"),
           Pat(Word2("su", "jo"), "const", 0, 0, 0, Amt(50000, 0), "su-jo-won"),
           Pat(Word2("sip", "eok"), "const", 0, 0, 0, Amt(10, 0), "sip-eok-won"),
           Pat(Word2("baek", "eok"), "const", 0, 0, 0, Amt(100, 0), "baek-eok-won"),
           Pat(<<NumPlus, Ws, Opt({"eok"}), Ws, Lit("~"), Ws, NumPlus>> \o UnitTail("eok"),
               "mul", 7, 7, 8, AmtZero, "range-eok-won"),
           Pat(<<NumPlus, Ws, Opt({"man"}), Ws, Lit("~"), Ws, NumPlus>> \o UnitTail("man"),
               "mul", 7, 7, 4, AmtZero, "range-man-won"),
           Pat(<<Opt(KoreanDigitChars), Opt({"sip"})>> \o UnitTail("eok"),
               "korean", 1, 2, 8, AmtZero, "korean-eok-won"),
           Pat(<<Opt(KoreanDigitChars), Opt({"sip"})>> \o UnitTail("man"),
               "korean", 1, 2, 4, AmtZero, "korean-man-won") >>

\* the dict korean_numbers
KoreanDigit(c) ==
    CASE c = "il" -> 1 [] c = "i" -> 2 [] c = "sam" -> 3 [] c = "sa" -> 4 [] c = "o" -> 5
      [] c = "yuk" -> 6 [] c = "chil" -> 7 [] c = "pal" -> 8 [] c = "gu" -> 9 [] c = "sip" -> 10

\* _korean_to_number
KoreanToNumber(korean_text) ==
    IF korean_text = <<>> THEN 1
    ELSE IF Len(korean_text) = 1 /\ korean_text[1] \in KoreanDigitChars \cup {"sip"}
    THEN KoreanDigit(korean_text[1])
    ELSE IF /\ Len(korean_text) = 2
            /\ \E j \in 1..2 : korean_text[j] = "sip"
            /\ korean_text[1] \in KoreanDigitChars \cup {"sip"}
    THEN KoreanDigit(korean_text[1]) * 10
    ELSE 1

\* converter(match)
Convert(pat, m, text) ==
    IF pat.conv = "const" THEN pat.value
    ELSE IF pat.conv = "mul" THEN MulPow10(ParseInt(GroupText(m, text, pat.ga, pat.gb)), pat.k)
    ELSE MulPow10(KoreanToNumber(GroupText(m, text, pat.ga, pat.gb)), pat.k)

\* one entry of modifier_patterns: WORD\s*(\d+(?:,\d{3})*)\s*(조|억|만)?\s*원? and its type
ModPat(word, type) ==
    [items |-> word \o <<Ws, NumPlusSep, Ws, Opt({"jo", "eok", "man"}), Ws, Opt({"won"})>>,
     gnum |-> Len(word) + 2, gunit |-> Len(word) + 4, type |-> type]

ModifierPatterns ==
    << ModPat(<<Lit("choe"), Lit("dae")>>, "max"),
       ModPat(<<Lit("choe"), Lit("go")>>, "max"),
       ModPat(<<Lit("choe"), Lit("so")>>, "min"),
       ModPat(<<Lit("choe"), Lit("jeo")>>, "min"),
       ModPat(<<Lit("yak")>>, "approx"),
       ModPat(<<Lit("dae"), Lit("ryak")>>, "approx"),
       ModPat(<<Lit("chong")>>, "total"),
       ModPat(<<Lit("jeon"), Lit("che")>>, "total"),
       ModPat(<<Lit("gyu"), Lit("mo")>>, "scale") >>

\* the amount of a modifier match: the unit applied, or guessed from the size
\* of the number when group 2 is empty
ModifierAmount(m, text, mp) ==
    LET number == ParseInt(GroupText(m, text, mp.gnum, mp.gnum))
        unit == GroupText(m, text, mp.gunit, mp.gunit)
    IN  IF unit = <<"jo">> THEN MulPow10(number, 12)
        ELSE IF unit = <<"eok">> THEN MulPow10(number, 8)
        ELSE IF unit = <<"man">> THEN MulPow10(number, 4)
        ELSE IF number >= 1000000 THEN MulPow10(number, 0)
        ELSE IF number >= 1000 THEN MulPow10(number, 4)
        ELSE MulPow10(number, 8)

ModifierHit(m, text, mp) ==
    LET unit == GroupText(m, text, mp.gunit, mp.gunit)
    IN  [amount |-> ModifierAmount(m, text, mp),
         text |-> MatchText(m, text),
         type |-> mp.type,
         unit |-> IF unit = <<>> THEN "guess" ELSE unit[1],
         modifier |-> TRUE]

PlainHit(m, text, pat) ==
    [amount |-> Convert(pat, m, text),
     text |-> MatchText(m, text),
     type |-> "exact",
     unit |-> pat.unit,
     modifier |-> FALSE]

RECURSIVE ModifierHits(_, _)
\* the entries appended to all_amounts by the loop over modifier_patterns, from pattern i on
ModifierHits(text, i) ==
    IF i > Len(ModifierPatterns) THEN <<>>
    ELSE LET ms == FindIter(ModifierPatterns[i].items, text, 1)
         IN  [j \in 1..Len(ms) |-> ModifierHit(ms[j], text, ModifierPatterns[i])]
             \o ModifierHits(text, i + 1)

RECURSIVE PlainHits(_, _)
\* the entries appended to all_amounts by the loop over patterns, from pattern i on
PlainHits(text, i) ==
    IF i > Len(AmountPatterns) THEN <<>>
    ELSE LET ms == FindIter(AmountPatterns[i].items, text, 1)
         IN  [j \in 1..Len(ms) |-> PlainHit(ms[j], text, AmountPatterns[i])]
             \o PlainHits(text, i + 1)

RECURSIVE TrackMax(_, _, _)
\* the running max_amount / max_amount_text / amount_type over the hits from j on:
\* a modifier hit that raises the maximum sets the type, a plain hit leaves it
TrackMax(hits, j, acc) ==
    IF j > Len(hits) THEN acc
    ELSE LET h == hits[j]
         IN  IF AmtGT(h.amount, acc.max_amount)
             THEN TrackMax(hits, j + 1,
                           [max_amount |-> h.amount,
                            max_amount_text |-> h.text,
                            amount_type |-> IF h.modifier THEN h.type ELSE acc.amount_type])
             ELSE TrackMax(hits, j + 1, acc)

EmptyNormalizedText == [prefix |-> "", whole |-> 0, frac |-> None, unit |-> ""]

\* normalized_text: the amount in 조 / 억 / 만 with at most one decimal digit,
\* prefixed by the modifier when the type is not exact
NormalizedText(a, amount_type) ==
    IF ~AmtGT(a, AmtZero) THEN EmptyNormalizedText
    ELSE LET core ==
               IF a.hi >= 10000
               THEN IF a.hi % 10000 = 0 /\ a.lo = 0
                    THEN [whole |-> a.hi \div 10000, frac |-> None, unit |-> "jo-won"]
                    ELSE [whole |-> a.hi \div 10000, frac |-> Some((a.hi % 10000) \div 1000),
                          unit |-> "jo-won"]
               ELSE IF a.hi >= 1
               THEN IF a.lo = 0
                    THEN [whole |-> a.hi, frac |-> None, unit |-> "eok-won"]
                    ELSE [whole |-> a.hi, frac |-> Some(a.lo \div 10000000), unit |-> "eok-won"]
               ELSE IF a.lo >= 10000
               THEN IF a.lo % 10000 = 0
                    THEN [whole |-> a.lo \div 10000, frac |-> None, unit |-> "man-won"]
                    ELSE [whole |-> a.lo \div 10000, frac |-> Some((a.lo % 10000) \div 1000),
                          unit |-> "man-won"]
               ELSE [whole |-> a.lo, frac |-> None, unit |-> "won"]
         IN  [prefix |-> IF amount_type # "exact" THEN amount_type ELSE "",
              whole |-> core.whole, frac |-> core.frac, unit |-> core.unit]

NormalizeAmount(text) ==
    IF text = <<>>
    THEN [amount_value |-> AmtZero, amount_text |-> <<>>,
          normalized_text |-> EmptyNormalizedText, amount_type |-> "none", all_amounts |-> <<>>]
    ELSE LET all_amounts == ModifierHits(text, 1) \o PlainHits(text, 1)
             best == TrackMax(all_amounts, 1,
                              [max_amount |-> AmtZero, max_amount_text |-> <<>>,
                               amount_type |-> "exact"])
         IN  [amount_value |-> best.max_amount,
              amount_text |-> best.max_amount_text,
              normalized_text |-> NormalizedText(best.max_amount, best.amount_type),
              amount_type |-> best.amount_type,
              all_amounts |-> all_amounts]

(***************************************************************************)
(* AmountConditionExtractor  (_extract_amount_condition_from_query)        *)
(* further syllables: keun 큰  hyeong 형  gi 기  eop 업  yu 유  ni 니       *)
(* kon 콘  jung 중  gan 간                                                  *)
(***************************************************************************)
\* the list `patterns` of the extractor: regular expression and converter
ConditionPatterns ==
    LET IsangTail == <<Ws, Lit("i"), Lit("sang")>>                    \* \s*이상
        IsangUiTail == <<Ws, Lit("i"), Lit("sang"), Opt({"ui"})>>     \* \s*이상의?
        ChoesoHead == <<Lit("choe"), Lit("so"), Ws>>                  \* 최소\s*
    IN  << Pat(<<NumPlus, Ws, Opt({"cheon"}), Ws, Lit("eok"), Ws, Opt({"won"})>> \o IsangTail,
               "mul", 1, 1, 11, AmtZero, ""),
           Pat(<<Lit("cheon"), Ws, Lit("eok"), Ws, Opt({"won"})>> \o IsangTail,
               "const", 0, 0, 0, Amt(1000, 0), ""),
           Pat(<<NumSep(3), Ws, Lit("eok"), Ws, Opt({"won"})>> \o IsangTail,
               "mul", 1, 1, 8, AmtZero, ""),
           Pat(<<NumPlus, Ws, Lit("cheon"), Ws, Lit("man"), Ws, Opt({"won"})>> \o IsangTail,
               "mul", 1, 1, 7, AmtZero, ""),
           Pat(<<NumPlus, Ws, Lit("baek"), Ws, Lit("man"), Ws, Opt({"won"})>> \o IsangTail,
               "mul", 1, 1, 6, AmtZero, ""),
           Pat(<<NumSep(3), Ws, Lit("man"), Ws, Opt({"won"})>> \o IsangTail,
               "mul", 1, 1, 4, AmtZero, ""),
           Pat(ChoesoHead \o <<NumPlus, Ws, Opt({"cheon"}), Ws, Lit("eok"), Ws, Opt({"won"})>>,
               "mul", 4, 4, 11, AmtZero, ""),
           Pat(ChoesoHead \o <<Lit("cheon"), Ws, Lit("eok"), Ws, Opt({"won"})>>,
               "const", 0, 0, 0, Amt(1000, 0), ""),
           Pat(ChoesoHead \o <<NumSep(3), Ws, Lit("eok"), Ws, Opt({"won"})>>,
               "mul", 4, 4, 8, AmtZero, ""),
           Pat(<<NumPlus, Ws, Opt({"cheon"}), Ws, Lit("eok")>> \o IsangUiTail,
               "mul", 1, 1, 11, AmtZero, ""),
           Pat(<<Lit("cheon"), Ws, Lit("eok")>> \o IsangUiTail,
               "const", 0, 0, 0, Amt(1000, 0), ""),
           Pat(<<NumSep(3), Ws, Lit("eok")>> \o IsangUiTail,
               "mul", 1, 1, 8, AmtZero, "") >>

\* keyword in query_lower
Contains(text, word) ==
    \E k \in 1..(Len(text) - Len(word) + 1) : SubSeq(text, k, k + Len(word) - 1) = word

LargeScaleKeywords ==
    { <<"dae", "gyu", "mo">>, <<"keun", " ", "gyu", "mo">>, <<"dae", "hyeong">>,
      <<"dae", "gi", "eop">>, <<"yu", "ni", "kon">> }
MidScaleKeywords == { <<"jung", "gyu", "mo">>, <<"jung", "gan", " ", "gyu", "mo">> }

\* the literals "대규모 지원사업" and "중규모 지원사업" stored as condition_text
LargeScaleText == <<"dae", "gyu", "mo", " ", "ji", "won", "sa", "eop">>
MidScaleText == <<"jung", "gyu", "mo", " ", "ji", "won", "sa", "eop">>

RECURSIVE ScanConditions(_, _, _)
\* the loop over patterns: the largest converted amount and the text of its match
ScanConditions(query, i, acc) ==
    IF i > Len(ConditionPatterns) THEN acc
    ELSE LET m == Search(ConditionPatterns[i].items, query, 1)
         IN  IF m.ok /\ AmtGT(Convert(ConditionPatterns[i], m, query), acc.min_amount)
             THEN ScanConditions(query, i + 1,
                                 [min_amount |-> Convert(ConditionPatterns[i], m, query),
                                  condition_text |-> MatchText(m, query)])
             ELSE ScanConditions(query, i + 1, acc)

ExtractAmountConditionFromQuery(query) ==
    IF query = <<>>
    THEN [min_amount |-> AmtZero, max_amount |-> AmtZero, condition_text |-> <<>>]
    ELSE LET found == ScanConditions(query, 1, [min_amount |-> AmtZero, condition_text |-> <<>>])
         IN  IF found.min_amount # AmtZero
             THEN [min_amount |-> found.min_amount, max_amount |-> AmtZero,
                   condition_text |-> found.condition_text]
             ELSE IF \E w \in LargeScaleKeywords : Contains(query, w)
             THEN [min_amount |-> Amt(500, 0), max_amount |-> AmtZero,
                   condition_text |-> LargeScaleText]
             ELSE IF \E w \in MidScaleKeywords : Contains(query, w)
             THEN [min_amount |-> Amt(100, 0), max_amount |-> AmtZero,
                   condition_text |-> MidScaleText]
             ELSE [min_amount |-> AmtZero, max_amount |-> AmtZero,
                   condition_text |-> found.condition_text]

(***************************************************************************)
(* ConfidenceEstimator  (RAGChatbot._calculate_confidence)                 *)
(* Similarity scores are counted in thousandths and confidences in         *)
(* millionths, so that every product of the code is an exact integer.      *)
(***************************************************************************)
RECURSIVE MaxScore(_)
\* max(result.get("score", 0.0) for result in search_results), of a non-empty list
MaxScore(results) ==
    IF Len(results) = 1 THEN results[1].score
    ELSE LET m == MaxScore(Tail(results))
         IN  IF results[1].score >= m THEN results[1].score ELSE m

\* 0.85 + (max_score - 0.6) * 0.375, clipped at 1.0
BandTop(m) == Min(850000 + (m - 600) * 375, 1000000)
\* 0.6 + (max_score - 0.4) * 1.25
BandHigh(m) == 600000 + (m - 400) * 1250
\* a slip of the middle band: the base of the band above copied into it
BandMidWrongBase(m) == 600000 + (m - 200) * 1500
\* 0.3 + (max_score - 0.2) * 1.5
BandMid(m) == 300000 + (m - 200) * 1500
\* max_score * 1.5
BandLow(m) == m * 1500

CalculateConfidence(results) ==
    IF results = <<>> THEN 0
    ELSE LET max_score == MaxScore(results)
         IN  IF max_score >= 600 THEN BandTop(max_score)
             ELSE IF max_score >= 400 THEN BandHigh(max_score)
             ELSE IF max_score >= 200 THEN BandMid(max_score)
             ELSE BandLow(max_score)

\* ---- inputs of the confidence estimator ----
MaxResults == 2

\* cosine similarities in thousandths, from -1.0 to a rounding excess above 1.0
ScoreDomain ==
    {-1000, -500, -1, 0, 1, 199, 200, 201, 399, 400, 401, 599, 600, 601, 999, 1000, 1001, 1500}

ScoredLists ==
    UNION { [1..n -> [score : ScoreDomain]] : n \in 0..MaxResults }

ConfCalculate ==
    /\ confidence' = Some(CalculateConfidence(search_results))
    /\ UNCHANGED search_results
    /\ UNCHANGED <<memVars, dlVars, normVars, condVars, rerankVars, chatVars,
                 sessVars, ingestVars>>

(***************************************************************************)
(* Inputs and steps of the two amount parsers                              *)
(***************************************************************************)
MaxDigit == 3

RECURSIVE ToDigits(_)
\* str(n)
ToDigits(n) ==
    LET DigitChar(d) == <<"0", "1", "2", "3", "4", "5", "6", "7", "8", "9">>[d + 1]
    IN  IF n < 10 THEN <<DigitChar(n)>>
        ELSE Append(ToDigits(n \div 10), DigitChar(n % 10))

\* the numbers written in the sample texts, as written
NumberTexts ==
    { ToDigits(n) : n \in (1..MaxDigit) \cup {5, 10, 100, 1000, 1500} }
    \cup { <<"1", ",", "0", "0", "0">> }

\* 억, 만, 조 and the compound units 천만, 백만, 천억
UnitTexts ==
    { <<"eok">>, <<"man">>, <<"jo">>, <<"cheon", "man">>, <<"baek", "man">>, <<"cheon", "eok">> }

\* 10^k won for each unit
UnitExponent(u) ==
    CASE u = <<"eok">> -> 8 [] u = <<"man">> -> 4 [] u = <<"jo">> -> 12
      [] u = <<"cheon", "man">> -> 7 [] u = <<"baek", "man">> -> 6 [] u = <<"cheon", "eok">> -> 11

\* no modifier, 최대, 최소, 약, 총
ModifierTexts ==
    { <<>>, <<"choe", "dae", " ">>, <<"choe", "so", " ">>, <<"yak", " ">>, <<"chong", " ">> }

ModifierType(mt) ==
    CASE mt = <<>> -> "exact" [] mt = <<"choe", "dae", " ">> -> "max"
      [] mt = <<"choe", "so", " ">> -> "min" [] mt = <<"yak", " ">> -> "approx"
      [] mt = <<"chong", " ">> -> "total"

\* "원" and "원 지원"
AmountTails == { <<"won">>, <<"won", " ", "ji", "won">> }

\* e.g. "최대 5천만원 지원"
AmountText(mt, nt, ut, tail) == mt \o nt \o ut \o tail

AmountTexts ==
    { AmountText(mt, nt, ut, tail) :
        mt \in ModifierTexts, nt \in NumberTexts, ut \in UnitTexts, tail \in AmountTails }
    \cup { <<>>, <<"x", "x", " ", "x", "x">> }
    \cup { <<"0", "eok", "won">>, <<"0", "jo", "won">>,               \* "0억원", "0조원"
           <<"3", "eok", "won", " ", "3", "eok">>,                     \* "3억원 3억"
           <<"2", "man", "won", " ", "choe", "dae", " ", "2", "man", "won">>,
           <<"choe", "dae", " ", "2", "man", "won", " ", "3", "eok", "won">> }  \* "최대 2만원 3억원"

NormNormalize ==
    /\ amount_info' = Some(NormalizeAmount(input_text))
    /\ UNCHANGED input_text
    /\ UNCHANGED <<memVars, dlVars, confVars, condVars, rerankVars, chatVars,
                 sessVars, ingestVars>>

\* " 이상", "이상" and " 이상의 지원사업 알려줘"
ThresholdTails ==
    { <<" ", "i", "sang">>, <<"i", "sang">>,
      <<" ", "i", "sang", "ui", " ", "ji", "won", "sa", "eop", " ", "x", "x", "x">> }

\* e.g. "1000억 이상의 지원사업 알려줘", "5천만원 이상"
ThresholdQuery(nt, ut, won, tail) == nt \o ut \o (IF won THEN <<"won">> ELSE <<>>) \o tail

Queries ==
    { ThresholdQuery(nt, ut, won, tail) :
        nt \in NumberTexts, ut \in UnitTexts \ {<<"jo">>}, won \in BOOLEAN, tail \in ThresholdTails }
    \cup { <<"choe", "so", " ">> \o nt \o ut :          \* e.g. "최소 10억"
             nt \in NumberTexts, ut \in {<<"eok">>, <<"cheon", "eok">>} }
    \cup { <<>>, <<"x", "x", " ", "ji", "won", "sa", "eop">>, LargeScaleText, MidScaleText,
           <<"yu", "ni", "kon">>, <<"jung", "gan", " ", "gyu", "mo">>,
           <<"1", "eok", "won", " ", "i", "sang", " ", "2", "cheon", "eok", " ", "i", "sang">>,
           <<"dae", "gyu", "mo", " ", "3", "eok", " ", "i", "sang">>,
           <<"jung", "gyu", "mo", " ", "dae", "hyeong">>,                  \* "중규모 대형"
           <<"0", "eok", " ", "i", "sang", " ", "dae", "gyu", "mo">> }      \* "0억 이상 대규모"

CondExtract ==
    /\ amount_condition' = Some(ExtractAmountConditionFromQuery(input_query))
    /\ UNCHANGED input_query
    /\ UNCHANGED <<memVars, dlVars, confVars, normVars, rerankVars, chatVars,
                 sessVars, ingestVars>>

(***************************************************************************)
(* ResultReranker  (PineconeManager.search_similar,                        *)
(* PineconeManager._is_current_year_announcement,                          *)
(* RAGChatbot._search_with_application_priority)                           *)
(* A match of the vector store is [id, score, metadata]; metadata holds    *)
(* application_period and amount_value (None when the key is missing; the  *)
(* program stores an int, so the str branch of line 885 and the except     *)
(* branch of line 978 are not taken).  Priority scores are counted in      *)
(* thousandths of a point.                                                 *)
(***************************************************************************)
Take(s, n) == SubSeq(s, 1, Min(Len(s), n))

\* tuple comparison a < b
LexLess(a, b) ==
    \E i \in 1..Len(a) : a[i] < b[i] /\ \A j \in 1..(i - 1) : a[j] = b[j]

\* a list: the elements of f, each computed once, in the order of their index
ListOf(f) == SubSeq(f, 1, Len(f))

\* list.sort(key=...): ascending by key, equal keys keep their order
StableSort(s, keys) ==
    LET n == Len(s)
        rank == ListOf([i \in 1..n |-> Cardinality({ j \in 1..n :
                    LexLess(keys[j], keys[i]) \/ (keys[j] = keys[i] /\ j < i) }) + 1])
    IN  ListOf([p \in 1..n |-> s[CHOOSE i \in 1..n : rank[i] = p]])

\* re.findall(r'(\d{4})', application_period) as integers
FourDigitGroups(period) ==
    (IF period.ymd8 = None THEN {}
     ELSE { period.ymd8[1].start \div 10000, period.ymd8[1].start % 10000,
            period.ymd8[1].end \div 10000, period.ymd8[1].end % 10000 })
    \cup (IF period.dot = None THEN {} ELSE { period.dot[1].sy, period.dot[1].ey })

IsCurrentYearAnnouncement(period, current_year) ==
    /\ ~period.empty
    /\ \E y \in FourDigitGroups(period) : y >= current_year

\* the dict built for one match in search_similar
SearchResult(match, t) ==
    LET deadline_status == AnalyzeDeadlineStatus(match.metadata.application_period, t)
    IN  [id |-> match.id, score |-> match.score, metadata |-> match.metadata,
         is_current_year |->
             IsCurrentYearAnnouncement(match.metadata.application_period, t.year),
         deadline_status |-> deadline_status,
         is_applicable |-> ~deadline_status.is_expired]

\* sort_key of search_similar
SortKey(x) ==
    LET days == x.deadline_status.days_remaining
        urgency_score ==
            IF x.deadline_status.status = "today" THEN 1000
            ELSE IF x.deadline_status.status = "urgent" THEN 500
            ELSE IF days # None /\ days[1] > 0
                 THEN (IF 100 - days[1] > 0 THEN 100 - days[1] ELSE 0)
            ELSE 0
    IN  << IF x.is_applicable THEN 0 ELSE 1,
           IF x.is_current_year THEN 0 ELSE 1,
           0 - urgency_score,
           0 - x.score >>

\* extended_top_k of search_similar: the top_k handed to index.query
ExtendedTopK(top_k) == Min(top_k * 5, 100)

\* index is None when the index is not initialised or index.query raises (the
\* result is then []), else it holds the matches of the query in the store's
\* similarity order
SearchSimilar(index, top_k, t) ==
    IF index = None THEN <<>>
    ELSE LET extended_top_k == ExtendedTopK(top_k)
             matches == Take(index[1], extended_top_k)
             results == ListOf([i \in 1..Len(matches) |-> SearchResult(matches[i], t)])
         IN  Take(StableSort(results, ListOf([i \in 1..Len(results) |-> SortKey(results[i])])),
                  top_k)

\* 100000 * log10(n), to the nearest integer, for n = d * 10^j with one digit d
RECURSIVE Log10Scaled(_)
Log10Scaled(n) ==
    IF n < 10
    THEN <<0, 30103, 47712, 60206, 69897, 77815, 84510, 90309, 95424>>[n]
    ELSE 100000 + Log10Scaled(n \div 10)

\* min(math.log10(amount_value / 100000000) * 100, 500) in thousandths, amount_value > 0
AmountBonus(amount_value) ==
    Min(IF amount_value.hi > 0 THEN Log10Scaled(amount_value.hi)
        ELSE Log10Scaled(amount_value.lo) - 800000,
        500000)

\* metadata.get("amount_value", 0)
AmountValue(metadata) ==
    IF metadata.amount_value = None THEN AmtZero ELSE metadata.amount_value[1]

\* the flag result["meets_amount_condition"] set by the classification loop
MeetsAmountCondition(result, min_amount) ==
    LET amount_value == AmountValue(result.metadata)
        meets_amount_condition == (min_amount = AmtZero) \/ AmtGE(amount_value, min_amount)
    IN  meets_amount_condition /\ AmtGT(amount_value, AmtZero)

\* a slip of priority_sort_key: the amount term left out
PriorityScoreNoAmountTerm(result, meets_amount_condition) ==
    (IF result.is_applicable /\ result.is_current_year THEN 1000000
     ELSE IF result.is_applicable THEN 500000
     ELSE IF result.is_current_year THEN 100000
     ELSE 10000)
    + (IF result.deadline_status.status = "today" THEN 200000
       ELSE IF result.deadline_status.status = "urgent" THEN 100000
       ELSE IF result.deadline_status.status = "soon" THEN 50000
       ELSE 0)

\* priority_score of priority_sort_key
PriorityScore(result, meets_amount_condition) ==
    (IF meets_amount_condition
     THEN 2000000 + (IF AmtGT(AmountValue(result.metadata), AmtZero)
                     THEN AmountBonus(AmountValue(result.metadata)) ELSE 0)
     ELSE 0)
    + (IF result.is_applicable /\ result.is_current_year THEN 1000000
       ELSE IF result.is_applicable THEN 500000
       ELSE IF result.is_current_year THEN 100000
       ELSE 10000)
    + (IF result.deadline_status.status = "today" THEN 200000
       ELSE IF result.deadline_status.status = "urgent" THEN 100000
       ELSE IF result.deadline_status.status = "soon" THEN 50000
       ELSE 0)

\* a slip of the final sort: similarity first, priority_score as the tie-break
PriorityRerankBySimilarity(found, min_amount, top_k) ==
    LET all_results ==
            ListOf([i \in 1..Len(found) |->
                [id |-> found[i].id, score |-> found[i].score,
                 metadata |-> found[i].metadata,
                 is_current_year |-> found[i].is_current_year,
                 deadline_status |-> found[i].deadline_status,
                 is_applicable |-> found[i].is_applicable,
                 meets_amount_condition |-> MeetsAmountCondition(found[i], min_amount)]])
        keys == ListOf([i \in 1..Len(all_results) |->
                    << 0 - all_results[i].score,
                       0 - PriorityScore(all_results[i],
                                         all_results[i].meets_amount_condition) >>])
    IN  Take(StableSort(all_results, keys), top_k)

\* the classification loop, the sort by priority_sort_key and the cut to top_k
PriorityRerank(found, min_amount, top_k) ==
    LET all_results ==
            ListOf([i \in 1..Len(found) |->
                [id |-> found[i].id, score |-> found[i].score,
                 metadata |-> found[i].metadata,
                 is_current_year |-> found[i].is_current_year,
                 deadline_status |-> found[i].deadline_status,
                 is_applicable |-> found[i].is_applicable,
                 meets_amount_condition |-> MeetsAmountCondition(found[i], min_amount)]])
        keys == ListOf([i \in 1..Len(all_results) |->
                    << 0 - PriorityScore(all_results[i],
                                         all_results[i].meets_amount_condition),
                       0 - all_results[i].score >>])
    IN  Take(StableSort(all_results, keys), top_k)

\* the list returned for the amount condition extracted from user_query
SearchWithApplicationPriority(index, top_k, amount_condition_, t) ==
    PriorityRerank(SearchSimilar(index, top_k * 4, t), amount_condition_.min_amount, top_k)

\* ---- inputs of the reranker ----
MaxMatches == 2

\* a batch of more matches than search_similar keeps for top_k = 1 (top_k * 4)
BigBatch == 5

\* similarity scores of the matches, in thousandths
MatchScores == {400, 700}

\* deadline last year, deadline this year but passed, deadline on the first day
\* of the clock's range, deadline months away, no period
MatchPeriods ==
    { PeriodDot(2024, 12, 1, 2024, 12, 31),
      Period8(20250101, 20250105),
      Period8(20250101, 20250100 + NowFirstDay),
      PeriodDot(2025, 1, 1, 2025, 3, 31),
      PeriodEmpty }

\* key missing, 10,000, 500,000,000 and 20,000,000,000 won
MatchAmounts ==
    { None, Some(MulPow10(1, 4)), Some(MulPow10(5, 8)), Some(MulPow10(2, 10)) }

\* one match of the store
Match(i, score, period, amount) ==
    [id |-> <<"a", i>>, score |-> score,
     metadata |-> [application_period |-> period, amount_value |-> amount]]

\* index.query returns its matches best similarity first
StoreOrdered(matches) ==
    \A i \in 1..(Len(matches) - 1) : matches[i].score >= matches[i + 1].score

\* no amount condition, "1만 이상" and "중규모 지원사업"
SearchQueries == { <<>>, <<"1", "man", " ", "i", "sang">>, MidScaleText }

\* 09:00 on the first day of the clock's range
SearchNows == { t \in Nows : t.year = 2025 /\ t.day = NowFirstDay /\ t.second = 32400 }

\* the calls: top_k = 2 with each query, top_k = 1 without an amount condition
SearchRequests ==
    { [top_k |-> 2, user_query |-> q, now |-> t] : q \in SearchQueries, t \in SearchNows }
    \cup { [top_k |-> 1, user_query |-> <<>>, now |-> t] : t \in SearchNows }

\* one call of _search_with_application_priority: the amount condition is
\* extracted from the query, the store is searched and the result reranked
RerankSearch ==
    /\ input_query' = search_request[1].user_query
    /\ amount_condition' = Some(ExtractAmountConditionFromQuery(search_request[1].user_query))
    /\ final_results' = Some(SearchWithApplicationPriority(store_index,
                                search_request[1].top_k, amount_condition'[1],
                                search_request[1].now))
    \* search_similar is called with top_k * 4
    /\ query_top_k' = IF store_index = None THEN None
                      ELSE Some(ExtendedTopK(search_request[1].top_k * 4))
    /\ UNCHANGED <<store_index, search_request>>
    /\ UNCHANGED <<memVars, dlVars, confVars, normVars, chatVars, sessVars, ingestVars>>

(***************************************************************************)
(* Query pipeline  (RAGChatbot.get_response, _generate_response_with_memory,*)
(* _generate_fallback_response, _extract_sources, _add_to_chat_history)    *)
(* An answer is kept as the template it was built from: kind is "llm" (the *)
(* text returned by the model), "template" (the answer built from one      *)
(* search result, named in top with its deadline status), "no_results"     *)
(* (the apology of line 1039) or "cannot_answer" (the message of line 676). *)
(***************************************************************************)
MAX_CHAT_HISTORY == 10

GenerateFallbackResponse(user_query, results, t) ==
    IF results = <<>>
    THEN [kind |-> "no_results", user_query |-> user_query, top |-> None]
    ELSE [kind |-> "template", user_query |-> user_query,
          top |-> Some([id |-> results[1].id,
                        status |-> AnalyzeDeadlineStatus(
                                       results[1].metadata.application_period, t).status])]

\* llm is the outcome of chat.completions.create: "ok" or "raises"
GenerateResponseWithMemory(user_query, llm, t) ==
    IF llm = "ok"
    THEN [kind |-> "llm", user_query |-> user_query, top |-> None]
    ELSE GenerateFallbackResponse(user_query, <<>>, t)

\* the dict returned from the except branch of get_response
CannotAnswerResult ==
    [answer |-> [kind |-> "cannot_answer", user_query |-> <<>>, top |-> None],
     sources |-> <<>>, confidence |-> 0, total_results |-> 0, error |-> TRUE]

AddToChatHistory(history, role, content) ==
    LET grown == Append(history, [role |-> role, content |-> content])
    IN  IF Len(grown) > MAX_CHAT_HISTORY * 2
        THEN LastN(grown, MAX_CHAT_HISTORY * 2)
        ELSE grown

\* ---- inputs of the pipeline ----
MaxCalls == 3

ChatQueries == { <<"x", "x", " ", "ji", "won", "sa", "eop">>, MidScaleText }

\* the store fails, holds nothing for the query, or holds an expired match
\* ahead of an active one of equal similarity
ChatIndexes ==
    { None, Some(<<>>),
      Some(<< Match(1, 700, Period8(20250101, 20250105), None),
              Match(2, 700, PeriodDot(2025, 1, 1, 2025, 3, 31), Some(MulPow10(2, 10))) >>) }

\* get_response when create_embedding raises: the except branch answers and
\* nothing else is touched
ChatEmbeddingFails ==
    /\ clock < MaxCalls
    /\ \E q \in ChatQueries :
         last_call' = Some([user_query |-> q, embedding |-> "raises",
                            search |-> "not called", llm |-> "not called"])
    /\ last_result' = Some(CannotAnswerResult)
    /\ UNCHANGED <<openai_client, chat_history, memVars, condVars, rerankVars, confVars>>

\* get_response when the embedding is created: search and rerank, answer by the
\* model or by a template, confidence, chat history and conversation memory
ChatAnswers ==
    /\ clock < MaxCalls
    /\ \E q \in ChatQueries, ix \in ChatIndexes, t \in SearchNows, llm \in {"ok", "raises"} :
         LET cond == ExtractAmountConditionFromQuery(q)
             results == SearchWithApplicationPriority(ix, 30, cond, t)
             response_text ==
                 IF openai_client
                 THEN GenerateResponseWithMemory(q, llm, t)
                 ELSE GenerateFallbackResponse(q, results, t)
         IN  /\ openai_client \/ llm = "ok"
             /\ input_query' = q
             /\ amount_condition' = Some(cond)
             /\ store_index' = ix
             /\ search_request' = Some([top_k |-> 30, user_query |-> q, now |-> t])
             /\ final_results' = Some(results)
             /\ query_top_k' = IF ix = None THEN None ELSE Some(ExtendedTopK(30 * 4))
             /\ search_results' = results
             /\ confidence' = Some(CalculateConfidence(results))
             /\ last_call' = Some([user_query |-> q, embedding |-> "ok",
                                   search |-> IF ix = None THEN "fails" ELSE "ok",
                                   llm |-> IF openai_client THEN llm ELSE "not called"])
             /\ last_result' = Some([answer |-> response_text,
                                     sources |-> ListOf([i \in 1..Len(results) |-> results[i].id]),
                                     confidence |-> CalculateConfidence(results),
                                     total_results |-> Len(results),
                                     error |-> FALSE])
             /\ chat_history' = AddToChatHistory(AddToChatHistory(chat_history, "user", q),
                                                 "assistant", response_text)
             /\ conversation_memory' =
                    UpdateConversationMemory(conversation_memory, q, response_text, clock + 1)
             /\ appended' = Append(appended, <<q, response_text, clock + 1>>)
             /\ clock' = clock + 1
    /\ UNCHANGED <<openai_client, memory_report, update_calls>>

ChatNext ==
    (ChatEmbeddingFails \/ ChatAnswers) /\ UNCHANGED <<dlVars, normVars, sessVars, ingestVars>>

(***************************************************************************)
(* Sessions  (get_rag_chatbot; get_chatbot_response and the clear button   *)
(* of pages/3_AI_챗봇.py)                                                  *)
(* The browser sessions of one server process run the page script against  *)
(* the same imported module rag_system, hence the same global _rag_chatbot. *)
(* The answer of get_response is taken from Responses.                      *)
(***************************************************************************)
MaxSessionCalls == 4

Sessions == {"s1", "s2"}

\* enhanced_query: the text a session sends, built around what its user typed
SessionQuery(s) == IF s = "s1" THEN "q1" ELSE "q2"

\* get_rag_chatbot: the global and the instances afterwards; an instance is
\* created, with an empty memory, only while the global is None
GetRagChatbot(global, instances) ==
    IF global = None
    THEN [rag_chatbot |-> Some(Len(instances) + 1), chatbots |-> Append(instances, <<>>)]
    ELSE [rag_chatbot |-> global, chatbots |-> instances]

\* _build_conversation_context: question and answer of every remembered turn
BuildConversationContext(mem) ==
    [i \in 1..Len(mem) |-> [user_query |-> mem[i].user_query, response |-> mem[i].response]]

\* get_chatbot_response of session s: the chatbot is fetched, the context is
\* built from its memory, the turn is appended to its memory
SessionAsks(s) ==
    /\ clock < MaxSessionCalls
    /\ \E r \in Responses :
         LET got == GetRagChatbot(rag_chatbot, chatbots)
             ref == got.rag_chatbot[1]
             mem == got.chatbots[ref]
         IN  /\ rag_chatbot' = got.rag_chatbot
             /\ session_context' =
                    [session_context EXCEPT ![s] = BuildConversationContext(mem)]
             /\ chatbots' = [got.chatbots EXCEPT
                               ![ref] = UpdateConversationMemory(mem, SessionQuery(s), r,
                                                                 clock + 1)]
             /\ session_op' = Some([session |-> s, kind |-> "ask", before |-> mem])
    /\ clock' = clock + 1
    /\ UNCHANGED <<conversation_memory, appended, memory_report, update_calls>>

\* the clear button of session s: the chatbot is fetched and its memory cleared
SessionClears(s) ==
    LET got == GetRagChatbot(rag_chatbot, chatbots)
        ref == got.rag_chatbot[1]
    IN  /\ rag_chatbot' = got.rag_chatbot
        /\ chatbots' = [got.chatbots EXCEPT ![ref] = <<>>]
        /\ session_op' = Some([session |-> s, kind |-> "clear", before |-> got.chatbots[ref]])
        /\ UNCHANGED <<session_context, memVars>>

SessNext ==
    /\ \E s \in Sessions : SessionAsks(s) \/ SessionClears(s)
    /\ UNCHANGED <<dlVars, confVars, normVars, condVars, rerankVars, chatVars, ingestVars>>

(***************************************************************************)
(* Ingestion  (ingest_announcements_to_pinecone, upsert_vectors,           *)
(* _build_announcement_metadata)                                           *)
(* The embedding model is loaded and the index is initialised, so the      *)
(* early returns of lines 1415-1427 are not taken; announcements is the    *)
(* merged dict all_data_sources.  An announcement whose text is empty is   *)
(* skipped, and so is one whose embedding cannot be created.  Of the       *)
(* metadata the id, the amount fields and ingested_at are kept.            *)
(***************************************************************************)
BatchSize == 100

MaxIngestRuns == 3

\* f"announcement_{announcement_id}"
VectorId(announcement_id) == <<"announcement", announcement_id>>

\* max(all_amount_infos, key=amount_value) over support_content, description
\* and title, the first of the largest; an empty normalized_text is replaced
\* by the default text of line 1966
BuildAnnouncementMetadata(announcement, t) ==
    LET \* max(amount_candidates, key=lambda x: x["amount_value"]): the first of the largest
        MainAmountInfo(support_amount_info, desc_amount_info, title_amount_info) ==
            IF /\ AmtGE(support_amount_info.amount_value, desc_amount_info.amount_value)
               /\ AmtGE(support_amount_info.amount_value, title_amount_info.amount_value)
            THEN support_amount_info
            ELSE IF AmtGE(desc_amount_info.amount_value, title_amount_info.amount_value)
                 THEN desc_amount_info
                 ELSE title_amount_info
        Metadata(main_amount_info) ==
            [amount_value |-> main_amount_info.amount_value,
             normalized_amount |->
                 IF main_amount_info.normalized_text = EmptyNormalizedText
                 THEN [EmptyNormalizedText EXCEPT !.unit = "jeongbo-eopseum"]
                 ELSE main_amount_info.normalized_text,
             ingested_at |-> t]
        texts == <<announcement.support_content, announcement.description, announcement.title>>
    IN  \* each text is normalized once
        CHOOSE metadata \in
            { Metadata(MainAmountInfo(infos[1], infos[2], infos[3])) :
                infos \in { ListOf([k \in 1..3 |-> NormalizeAmount(texts[k])]) } } : TRUE

\* a slip of the store: every vector of a batch is added, none replaced
UpsertVectorsAppending(store, batch) == store \o batch

\* index.upsert: a vector whose id is stored replaces the stored one, any
\* other vector is added
UpsertVectors(store, batch) ==
    LET At(seq, id) == CHOOSE j \in 1..Len(seq) : seq[j].id = id
        Has(seq, id) == \E j \in 1..Len(seq) : seq[j].id = id
        replaced == ListOf([i \in 1..Len(store) |->
                        IF Has(batch, store[i].id) THEN batch[At(batch, store[i].id)]
                        ELSE store[i]])
        IsNew(v) == ~Has(store, v.id)
    IN  replaced \o SelectSeq(batch, IsNew)

RECURSIVE UpsertBatches(_, _, _)
\* the store after the first k upsert calls of one ingestion
UpsertBatches(store, vectors, k) ==
    IF k = 0 THEN store
    ELSE UpsertVectors(UpsertBatches(store, vectors, k - 1),
                       SubSeq(vectors, BatchSize * (k - 1) + 1,
                              Min(BatchSize * k, Len(vectors))))

\* ingest_announcements_to_pinecone; fail_at is the upsert call that fails (0: none).
\* processed_count is counted when a vector is queued, before its batch is sent;
\* upserted is the number of vectors of the calls that succeeded
IngestAnnouncements(all_data_sources, store, fail_at, t) ==
    LET Queued(a) == ~a.text_empty /\ a.embeds
        queued == SelectSeq(all_data_sources, Queued)
        calls == (Len(queued) + BatchSize - 1) \div BatchSize
        RunWith(vectors_to_upsert) ==
            IF fail_at \in 1..calls
            THEN [store |-> UpsertBatches(store, vectors_to_upsert, fail_at - 1),
                  success |-> FALSE,
                  processed_count |-> Min(BatchSize * fail_at, Len(queued)),
                  upserted |-> BatchSize * (fail_at - 1),
                  upsert_calls |-> fail_at]
            ELSE [store |-> UpsertBatches(store, vectors_to_upsert, calls),
                  success |-> TRUE,
                  processed_count |-> Len(queued),
                  upserted |-> Len(queued),
                  upsert_calls |-> calls]
    IN  \* the vector of a record is built once
        CHOOSE run \in
            { RunWith(vectors) :
                vectors \in { ListOf([i \in 1..Len(queued) |->
                                [id |-> VectorId(queued[i].announcement_id),
                                 metadata |-> BuildAnnouncementMetadata(queued[i], t)]]) } } : TRUE

\* ---- inputs of the ingestion ----
\* n announcements: the first states two amounts, the second has no text, the
\* third cannot be embedded, the others state no amount
Announcement(i, amount_text) ==
    [announcement_id |-> i,
     text_empty |-> (i = 2),
     embeds |-> (i # 3),
     title |-> IF i = 1 THEN <<"5", "eok", "won">> ELSE <<>>,
     support_content |-> IF i = 1 THEN amount_text ELSE <<>>,
     description |-> <<>>]

RecordCounts == {0, 1, 3, BatchSize + 2, 2 * BatchSize + 3}

IngestAmountTexts == { <<>>, <<"choe", "dae", " ", "3", "cheon", "man", "won">>, <<"2", "jo", "won">> }

Ingest ==
    /\ clock < MaxIngestRuns
    /\ \E fail_at \in 0..3 :
         \E run \in {IngestAnnouncements(announcements, vector_store, fail_at, clock + 1)} :
             /\ vector_store' = run.store
             /\ ingest_result' = Some([success |-> run.success,
                                       processed_count |-> run.processed_count,
                                       upserted |-> run.upserted,
                                       upsert_calls |-> run.upsert_calls])
             /\ first_store' = IF first_store = None /\ run.success
                               THEN Some(run.store) ELSE first_store
    /\ clock' = clock + 1
    /\ UNCHANGED <<announcements, conversation_memory, appended, memory_report, update_calls>>
    /\ UNCHANGED <<dlVars, confVars, normVars, condVars, rerankVars, chatVars, sessVars>>

\* ---- data_handler: one record added or updated ----
\* _build_metadata_for_pinecone: eleven display fields copied from the record
\* and data_source; none of them is an amount field.  Of the twelve the
\* data_source is kept.
BuildMetadataForPinecone(contest_data) ==
    [data_source |-> "user_created"]

\* _update_pinecone_single: nothing is sent when the text is empty or the
\* embedding cannot be created, else one vector is upserted under the id the
\* ingestion uses
UpdatePineconeSingle(store, contest_data) ==
    IF contest_data.text_empty \/ ~contest_data.embeds THEN store
    ELSE UpsertVectors(store, <<[id |-> VectorId(contest_data.announcement_id),
                                 metadata |-> BuildMetadataForPinecone(contest_data)]>>)

\* add_contest / update_contest, after the record is saved: line 700 and line 1121
UpdateContest ==
    /\ \E i \in 1..Min(Len(announcements), 3) :
         vector_store' = UpdatePineconeSingle(vector_store, announcements[i])
    /\ UNCHANGED <<announcements, ingest_result, first_store, clock, conversation_memory, appended,
                   memory_report, update_calls>>
    /\ UNCHANGED <<dlVars, confVars, normVars, condVars, rerankVars, chatVars, sessVars>>

(***************************************************************************)
(* Specifications                                                          *)
(***************************************************************************)
\* the components a specification does not exercise rest in their state after
\* construction: nothing remembered, nothing analysed, no client, no index
Idle(active) ==
    /\ IF active \in {"memory", "threads"} THEN TRUE
       ELSE /\ conversation_memory = <<>> /\ appended = <<>> /\ clock = 0
            /\ memory_report = None
    /\ IF active = "threads" THEN TRUE
       ELSE update_calls = <<>>
    /\ IF active = "deadline" THEN TRUE
       ELSE /\ application_period = PeriodEmpty
            /\ now = [year |-> 2025, month |-> 1, day |-> 10,
                      second |-> 32400, microsecond |-> 0]
            /\ deadline_info = None
            /\ earlier_info = None
    /\ IF active = "confidence" THEN TRUE
       ELSE search_results = <<>> /\ confidence = None
    /\ IF active = "normalize" THEN TRUE
       ELSE input_text = <<>> /\ amount_info = None
    /\ IF active = "condition" THEN TRUE
       ELSE input_query = <<>> /\ amount_condition = None
    /\ IF active = "rerank" THEN TRUE
       ELSE /\ store_index = None /\ search_request = None /\ final_results = None
            /\ query_top_k = None
    /\ IF active = "chat" THEN TRUE
       ELSE /\ openai_client = FALSE
            /\ chat_history = <<>>
            /\ last_call = None
            /\ last_result = None
    /\ IF active = "sessions" THEN TRUE
       ELSE /\ rag_chatbot = None
            /\ chatbots = <<>>
            /\ session_context = <<>>
            /\ session_op = None
    /\ IF active = "ingestion" THEN TRUE
       ELSE /\ announcements = <<>>
            /\ vector_store = <<>>
            /\ ingest_result = None
            /\ first_store = None

InitMemory == Idle("none")
SpecMemory == InitMemory /\ [][MemNext]_vars

\* the memory holds the turns of n earlier calls made one after the other; both
\* threads have called _update_conversation_memory
InitThreads ==
    /\ \E n \in 0..max_memory_turns :
         /\ conversation_memory = [i \in 1..n |-> [user_query |-> "q1", response |-> "r1",
                                                    timestamp |-> i, turn |-> i]]
         /\ appended = [i \in 1..n |-> <<"q1", "r1", i>>]
         /\ clock = n
    /\ memory_report = None
    /\ update_calls = [t \in Threads |-> [pc |-> "called", memory_entry |-> None]]
    /\ Idle("threads")
SpecThreads == InitThreads /\ [][UpdNext]_vars

InitDeadline ==
    /\ application_period \in Periods
    /\ now \in Nows
    /\ deadline_info = None
    /\ earlier_info = None
    /\ Idle("deadline")
SpecDeadline == InitDeadline /\ [][DlAnalyze]_vars

InitConfidence ==
    /\ search_results \in ScoredLists
    /\ confidence = None
    /\ Idle("confidence")
SpecConfidence == InitConfidence /\ [][ConfCalculate]_vars

InitNormalize ==
    /\ input_text \in AmountTexts
    /\ amount_info = None
    /\ Idle("normalize")
SpecNormalize == InitNormalize /\ [][NormNormalize]_vars

InitCondition ==
    /\ input_query \in Queries
    /\ amount_condition = None
    /\ Idle("condition")
SpecCondition == InitCondition /\ [][CondExtract]_vars

InitRerank ==
    /\ \/ store_index = None
       \/ \E n \in 0..MaxMatches :
            \E sc \in [1..n -> MatchScores], pd \in [1..n -> MatchPeriods],
               am \in [1..n -> MatchAmounts] :
                /\ store_index = Some(ListOf([i \in 1..n |-> Match(i, sc[i], pd[i], am[i])]))
                /\ StoreOrdered(store_index[1])
       \/ \E pd \in [1..(BigBatch - 1) -> {PeriodDot(2025, 1, 1, 2025, 3, 31), PeriodEmpty}],
             am \in [1..BigBatch -> {None, Some(MulPow10(2, 10))}], last \in MatchPeriods :
                store_index = Some(ListOf([i \in 1..BigBatch |->
                    Match(i, 700, IF i < BigBatch THEN pd[i] ELSE last, am[i])]))
    /\ search_request \in { Some(r) : r \in SearchRequests }
    /\ final_results = None
    /\ query_top_k = None
    /\ Idle("rerank")
SpecRerank == InitRerank /\ [][RerankSearch]_vars

InitChat ==
    /\ openai_client \in BOOLEAN
    /\ chat_history = <<>>
    /\ last_call = None
    /\ last_result = None
    /\ Idle("chat")
SpecChat == InitChat /\ [][ChatNext]_vars

InitSessions ==
    /\ rag_chatbot = None
    /\ chatbots = <<>>
    /\ session_context = [s \in Sessions |-> <<>>]
    /\ session_op = None
    /\ Idle("sessions")
SpecSessions == InitSessions /\ [][SessNext]_vars

InitIngestion ==
    /\ \E n \in RecordCounts, amount_text \in IngestAmountTexts :
         announcements = ListOf([i \in 1..n |-> Announcement(i, amount_text)])
    /\ vector_store = <<>>
    /\ ingest_result = None
    /\ first_store = None
    /\ Idle("ingestion")
SpecIngestion == InitIngestion /\ [][Ingest]_vars

\* ingestion runs and single-record updates in any order
SpecContests == InitIngestion /\ [][Ingest \/ UpdateContest]_vars

(***************************************************************************)
(* Claims                                                                  *)
(***************************************************************************)
\* C1: after n appends the memory holds exactly the last min(n, max_turns)
\* appended (user_query, response) pairs in append order (the i-th stored turn
\* is call n - k + i, with that call's timestamp), its length never exceeds
\* max_turns, and the stored turn numbers are 1..length in order.
C1_MemoryBoundedFifo ==
    LET n == Len(appended)
        k == Min(n, max_memory_turns)
    IN  /\ Len(conversation_memory) = k
        /\ Len(conversation_memory) <= max_memory_turns
        /\ \A i \in 1..k :
             /\ conversation_memory[i].turn = i
             /\ conversation_memory[i].timestamp = appended[n - k + i][3]
             /\ conversation_memory[i].user_query = appended[n - k + i][1]
             /\ conversation_memory[i].response = appended[n - k + i][2]

\* seven appends have happened: the memory holds calls 3..7 numbered 1..5
C1_Witness ==
    /\ Len(appended) = 7
    /\ Len(conversation_memory) = 5
    /\ conversation_memory[1].timestamp = appended[3][3]
    /\ conversation_memory[5].timestamp = appended[7][3]
    /\ conversation_memory[1].turn = 1
    /\ conversation_memory[5].turn = 5

\* C6: every returned DeadlineStatus is internally consistent: status is
\* unknown iff days_remaining is null (then is_expired = is_urgent = false and
\* deadline_date is null); otherwise the status is expired / today / urgent /
\* soon / active exactly when days_remaining is < 0 / = 0 / in 1..3 / in 4..7 /
\* > 7, is_expired iff days_remaining < 0, is_urgent iff 0 <= days_remaining <= 3
\* (iff the status is today or urgent).
C6_DeadlineStatusConsistent ==
    deadline_info # None =>
      LET i == deadline_info[1]
      IN  /\ (i.status = "unknown") <=> (i.days_remaining = None)
          /\ i.status \in {"unknown", "expired", "today", "urgent", "soon", "active"}
          /\ (i.days_remaining = None) =>
                /\ ~i.is_expired
                /\ ~i.is_urgent
                /\ i.deadline_date = None
          /\ (i.days_remaining # None) =>
                LET d == i.days_remaining[1]
                IN  /\ i.deadline_date # None
                    /\ (i.status = "expired") <=> (d < 0)
                    /\ (i.status = "today") <=> (d = 0)
                    /\ (i.status = "urgent") <=> (1 <= d /\ d <= 3)
                    /\ (i.status = "soon") <=> (4 <= d /\ d <= 7)
                    /\ (i.status = "active") <=> (d > 7)
                    /\ i.is_expired <=> (d < 0)
                    /\ i.is_urgent <=> (0 <= d /\ d <= 3)
                    /\ i.is_urgent <=> (i.status \in {"today", "urgent"})

\* an analysis returned the status today on the deadline day itself
C6_Witness ==
    /\ deadline_info # None
    /\ deadline_info[1].status = "today"
    /\ deadline_info[1].days_remaining = Some(0)
    /\ deadline_info[1].is_urgent
    /\ ~deadline_info[1].is_expired

\* C7: for every parsable period and every instant now, days_remaining is the
\* calendar-day difference between the deadline date and the KST calendar
\* date of now (0 on every instant of the deadline day, D - N on a date N
\* before the deadline date, negative after the deadline day).
C7_DaysRemainingIsCalendarDifference ==
    (deadline_info # None /\ deadline_info[1].deadline_date # None) =>
      LET i == deadline_info[1]
          dd == i.deadline_date[1]
      IN  i.days_remaining =
            Some(ToOrdinal(dd.year, dd.month, dd.day) - ToOrdinal(now.year, now.month, now.day))

\* C8: the confidence is a value in [0, 1] for every candidate list and
\* every similarity score the vector store can return (scores below 0 and
\* above 1 included), and it is 0.0 for the empty list.
C8_ConfidenceInUnitInterval ==
    confidence # None =>
      /\ 0 <= confidence[1]
      /\ confidence[1] <= 1000000
      /\ (search_results = <<>> => confidence[1] = 0)

\* C9: the confidence is monotonically non-decreasing in the maximum
\* similarity score over the whole domain, the band formulas agree at the
\* boundaries 0.2, 0.4 and 0.6 (0.3, 0.6, 0.85), and confidence(0.0) = 0.0,
\* confidence(0.6) = 0.85, confidence(1.0) = 1.0.
C9_ConfidenceMonotoneContinuous ==
    (confidence # None /\ search_results # <<>>) =>
      LET m == MaxScore(search_results)
          c == confidence[1]
      IN  /\ \A s \in ScoreDomain :
               LET cs == CalculateConfidence(<<[score |-> s]>>)
               IN  /\ (s <= m => cs <= c)
                   /\ (s >= m => cs >= c)
          /\ (m = 200 => (c = 300000 /\ BandLow(m) = c /\ BandMid(m) = c))
          /\ (m = 400 => (c = 600000 /\ BandMid(m) = c /\ BandHigh(m) = c))
          /\ (m = 600 => (c = 850000 /\ BandHigh(m) = c /\ BandTop(m) = c))
          /\ (m = 0 => c = 0)
          /\ (m = 1000 => c = 1000000)

\* the confidence of a list whose best score sits on the boundary 0.4 was computed
C9_Witness ==
    /\ confidence # None
    /\ Len(search_results) = 2
    /\ MaxScore(search_results) = 400
    /\ confidence[1] = 600000

\* C4: an explicit threshold phrase is converted with the unit it names: for
\* every query "<N>억 이상 ..." (no 천 between the number and 억) min_amount is
\* N x 10^8, and a query "<N><unit> 이상 ..." in general gives N x the value of
\* its unit (the largest correctly converted threshold of the text).
C4_ThresholdUsesNamedUnit ==
    amount_condition # None =>
      \A nt \in NumberTexts, ut \in UnitTexts \ {<<"jo">>}, won \in BOOLEAN, tail \in ThresholdTails :
        input_query = ThresholdQuery(nt, ut, won, tail) =>
          amount_condition[1].min_amount = MulPow10(ParseInt(nt), UnitExponent(ut))

\* C5: a modifier-qualified expression whose number is followed by a compound
\* unit (천만, 백만, 천억) yields the amount the expression denotes, with the
\* modifier's type and a normalized_text that starts with the modifier; no
\* modifier match is larger than the amount the expression denotes.
C5_ModifierWithCompoundUnit ==
    amount_info # None =>
      \A mt \in ModifierTexts \ {<<>>}, nt \in NumberTexts, tail \in AmountTails,
         ut \in {<<"cheon", "man">>, <<"baek", "man">>, <<"cheon", "eok">>} :
        input_text = AmountText(mt, nt, ut, tail) =>
          LET denoted == MulPow10(ParseInt(nt), UnitExponent(ut))
              info == amount_info[1]
          IN  /\ info.amount_value = denoted
              /\ info.amount_type = ModifierType(mt)
              /\ info.normalized_text.prefix = ModifierType(mt)
              /\ \A j \in 1..Len(info.all_amounts) :
                   info.all_amounts[j].modifier => AmtGE(denoted, info.all_amounts[j].amount)

\* C2: in the reranked output, of two candidates with equal
\* similarity score, one expired and one active, the active one comes first,
\* whatever their amount fields.
C2_ActiveBeforeExpired ==
    final_results # None =>
        \A i, j \in 1..Len(final_results[1]) :
            ( /\ final_results[1][i].score = final_results[1][j].score
              /\ final_results[1][i].deadline_status.status = "expired"
              /\ final_results[1][j].deadline_status.status = "active" )
            => j < i

C11_CollaboratorFailureAborts ==
    ( /\ last_call # None
      /\ (last_call[1].embedding = "raises" \/ last_call[1].search = "fails") )
    => /\ last_result[1].answer.kind = "cannot_answer"
       /\ last_result[1].confidence = 0
       /\ last_result[1].sources = <<>>
       /\ last_call[1].llm = "not called"

\* C12: when the vector store returns zero candidates, get_response returns the
\* "no results" template with confidence 0 and no error, and the model is not
\* asked, whether or not a client is configured.
C12_EmptyResultAnswersFromTemplate ==
    ( /\ last_call # None
      /\ last_call[1].search = "ok"
      /\ final_results[1] = <<>> )
    => /\ last_result[1].answer.kind = "no_results"
       /\ last_result[1].confidence = 0
       /\ ~last_result[1].error
       /\ last_call[1].llm = "not called"

\* C13: sessions are independent: the conversation context built for a
\* question of a session holds only turns of that session's own questions, and
\* clearing the memory in one session removes no turn of another session.
C13_SessionsIndependent ==
    /\ \A s \in Sessions : \A i \in 1..Len(session_context[s]) :
           session_context[s][i].user_query = SessionQuery(s)
    /\ (session_op # None /\ session_op[1].kind = "clear") =>
           \A i \in 1..Len(session_op[1].before) :
               session_op[1].before[i].user_query # SessionQuery(session_op[1].session)
               => \E j \in 1..Len(chatbots[rag_chatbot[1]]) :
                      chatbots[rag_chatbot[1]][j] = session_op[1].before[i]

\* C14: when an upsert batch fails, no later batch is attempted and the count
\* the ingestion reports is the number of records upserted before the failure.
C14_FailedBatchReportsUpsertedCount ==
    (ingest_result # None /\ ~ingest_result[1].success) =>
        ingest_result[1].processed_count = ingest_result[1].upserted

\* the ids and the amount fields of the stored vectors
StoredAmounts(store) ==
    [i \in 1..Len(store) |-> [id |-> store[i].id,
                              amount_value |-> store[i].metadata.amount_value,
                              normalized_amount |-> store[i].metadata.normalized_amount]]

C16_MaximumOfAllAmounts ==
    amount_info # None =>
        LET info == amount_info[1]
            hits == info.all_amounts
            attains(j) == hits[j].amount = info.amount_value
        IN  IF hits = <<>>
            THEN /\ info.amount_value = AmtZero
                 /\ info.amount_text = <<>>
                 /\ info.normalized_text = EmptyNormalizedText
            ELSE /\ \A j \in 1..Len(hits) : AmtGE(info.amount_value, hits[j].amount)
                 /\ \E j \in 1..Len(hits) :
                        /\ attains(j)
                        /\ \A k \in 1..(j - 1) : ~attains(k)
                        /\ info.amount_text = hits[j].text

\* C17: the keyword fallback applies only when no explicit numeric threshold
\* matched: then a large-scale keyword gives 5 x 10^10, otherwise a mid-scale
\* keyword gives 10^10, otherwise 0; an explicit threshold is never overridden
\* by a keyword, and max_amount is 0 in every result.
C17_KeywordFallbackOnlyWithoutThreshold ==
    amount_condition # None =>
        LET explicit == \E i \in 1..Len(ConditionPatterns) :
                            Search(ConditionPatterns[i].items, input_query, 1).ok
            large == \E w \in LargeScaleKeywords : Contains(input_query, w)
            mid == \E w \in MidScaleKeywords : Contains(input_query, w)
            threshold == ScanConditions(input_query, 1,
                                        [min_amount |-> AmtZero, condition_text |-> <<>>])
        IN  /\ amount_condition[1].max_amount = AmtZero
            /\ explicit => amount_condition[1].min_amount = threshold.min_amount
            /\ ~explicit =>
                   amount_condition[1].min_amount =
                       IF large THEN Amt(500, 0) ELSE IF mid THEN Amt(100, 0) ELSE AmtZero

\* C18: the analyzer tries the 8-digit pattern first, then the dotted one; a
\* pattern whose end date is not a date of the calendar counts as no match and
\* the next pattern is tried; when no pattern yields a valid date (the empty
\* string included) the result is exactly: status unknown, days_remaining and
\* deadline_date null, is_expired and is_urgent false.
C18_PatternsInOrderElseUnknown ==
    deadline_info # None =>
        LET p == application_period
            end8 == IF p.ymd8 = None THEN [year |-> 0, month |-> 0, day |-> 0]
                    ELSE [year |-> p.ymd8[1].end \div 10000,
                          month |-> (p.ymd8[1].end \div 100) % 100,
                          day |-> p.ymd8[1].end % 100]
            enddot == IF p.dot = None THEN [year |-> 0, month |-> 0, day |-> 0]
                      ELSE [year |-> p.dot[1].ey, month |-> p.dot[1].em, day |-> p.dot[1].ed]
            ok8 == ~p.empty /\ p.ymd8 # None /\ ValidDate(end8.year, end8.month, end8.day)
            okdot == ~p.empty /\ p.dot # None
                     /\ ValidDate(enddot.year, enddot.month, enddot.day)
        IN  /\ ok8 => deadline_info[1].deadline_date = Some(end8)
            /\ (~ok8 /\ okdot) => deadline_info[1].deadline_date = Some(enddot)
            /\ (ok8 \/ okdot) => /\ deadline_info[1].days_remaining # None
                                 /\ deadline_info[1].status # "unknown"
            /\ (~ok8 /\ ~okdot) =>
                   deadline_info[1] = [status |-> "unknown", days_remaining |-> None,
                                       deadline_date |-> None, is_expired |-> FALSE,
                                       is_urgent |-> FALSE]

\* a period whose 8-digit end date is the 32nd of January and whose dotted end
\* date is valid was analysed from the dotted date
C18_Witness ==
    /\ deadline_info # None
    /\ application_period.ymd8 # None
    /\ application_period.ymd8[1].end = 20250132
    /\ application_period.dot # None
    /\ deadline_info[1].deadline_date = Some([year |-> 2025, month |-> 1, day |-> 31])
    /\ deadline_info[1].status # "unknown"

C20_TopKOfWholeBatch ==
    (final_results # None /\ store_index # None) =>
        LET batch == store_index[1]
            out == final_results[1]
            min_amount == amount_condition[1].min_amount
            candidate(i) == SearchResult(batch[i], search_request[1].now)
            rank(r) == << PriorityScore(r, MeetsAmountCondition(r, min_amount)), r.score >>
        IN  /\ Len(out) = Min(search_request[1].top_k, Len(batch))
            /\ \A i, j \in 1..Len(out) : out[i].id = out[j].id => i = j
            /\ \A i \in 1..Len(out) : \E j \in 1..Len(batch) : batch[j].id = out[i].id
            /\ \A j \in 1..Len(batch) :
                   (\A i \in 1..Len(out) : out[i].id # batch[j].id) =>
                       \A i \in 1..Len(out) :
                           ~LexLess(rank(SearchResult(out[i], search_request[1].now)),
                                    rank(candidate(j)))

\* C21: a returned candidate's meets_amount_condition is true iff min_amount = 0
\* or (amount_value > 0 and amount_value >= min_amount); with no amount
\* condition every candidate meets it, one without an amount included.
C21_MeetsAmountConditionRule ==
    final_results # None =>
        LET min_amount == amount_condition[1].min_amount
        IN  \A i \in 1..Len(final_results[1]) :
                LET r == final_results[1][i]
                    amount_value == AmountValue(r.metadata)
                IN  r.meets_amount_condition <=>
                        \/ min_amount = AmtZero
                        \/ AmtGT(amount_value, AmtZero) /\ AmtGE(amount_value, min_amount)

\* C22: the amount bonus added to the priority_score of a returned candidate
\* that meets the amount condition lies between 0 and 500 points (thousandths
\* here) and is 0 for every amount_value up to 100,000,000.
C22_AmountBonusBetween0And500 ==
    final_results # None =>
        \A i \in 1..Len(final_results[1]) :
            LET r == final_results[1][i]
                amount_value == AmountValue(r.metadata)
                amount_bonus == PriorityScore(r, r.meets_amount_condition)
                                - PriorityScoreNoAmountTerm(r, r.meets_amount_condition)
                                - (IF r.meets_amount_condition THEN 2000000 ELSE 0)
            IN  /\ amount_bonus >= 0
                /\ amount_bonus <= 500000
                /\ AmtGE(MulPow10(1, 8), amount_value) => amount_bonus = 0

\* C23: a returned candidate whose metadata has no application_period that
\* holds a date range and no amount_value is scored as the worst case:
\* is_applicable, is_current_year and meets_amount_condition are false and the
\* deadline status is unknown.
C23_MalformedCandidateIsWorstCase ==
    final_results # None =>
        \A i \in 1..Len(final_results[1]) :
            LET r == final_results[1][i]
            IN  ( /\ r.metadata.application_period.ymd8 = None
                  /\ r.metadata.application_period.dot = None
                  /\ r.metadata.amount_value = None )
                => /\ ~r.is_applicable
                   /\ ~r.is_current_year
                   /\ ~r.meets_amount_condition
                   /\ r.deadline_status.status = "unknown"

\* C24: for a call of the reranker with top_k = k the vector store is asked
\* for min(5 * k, 100) candidates.
C24_StoreAskedForFiveTimesTopK ==
    query_top_k # None =>
        query_top_k[1] = Min(5 * search_request[1].top_k, 100)

\* C25: amount_type is the type of the match that produced the maximum: when
\* the first match that attains the (positive) maximum is an unmodified one,
\* amount_type is exact and normalized_text has no modifier prefix, even after a
\* smaller modifier-qualified match.
C25_TypeFollowsMaximum ==
    (amount_info # None /\ AmtGT(amount_info[1].amount_value, AmtZero)) =>
        LET info == amount_info[1]
            hits == info.all_amounts
            attains(j) == hits[j].amount = info.amount_value
        IN  \A j \in 1..Len(hits) :
                (attains(j) /\ (\A k \in 1..(j - 1) : ~attains(k)) /\ ~hits[j].modifier)
                => /\ info.amount_type = "exact"
                   /\ info.normalized_text.prefix = ""

\* C26: no stored turn is mutated after creation: over every step of append,
\* summary, status and clear, each turn that stays in the memory has the field
\* values it had before the step.
C26_TurnsNeverMutated ==
    [][ LET before == conversation_memory
            after == conversation_memory'
            \* an append keeps the last turns: position j afterwards held position j + shift
            shift == IF appended' = appended THEN 0 ELSE Len(before) + 1 - Len(after)
            kept == IF after = <<>> THEN {}
                    ELSE IF appended' = appended THEN 1..Len(after)
                    ELSE 1..(Len(after) - 1)
        IN  \A j \in kept : after[j] = before[j + shift] ]_vars

\* C26, as the program has it: user_query, response and timestamp of a stored
\* turn never change; its turn number changes only when an append evicts the
\* oldest turn, and then it goes down by one.
C26_TurnContentNeverMutated ==
    [][ LET before == conversation_memory
            after == conversation_memory'
            shift == IF appended' = appended THEN 0 ELSE Len(before) + 1 - Len(after)
            kept == IF after = <<>> THEN {}
                    ELSE IF appended' = appended THEN 1..Len(after)
                    ELSE 1..(Len(after) - 1)
        IN  \A j \in kept :
                /\ after[j].user_query = before[j + shift].user_query
                /\ after[j].response = before[j + shift].response
                /\ after[j].timestamp = before[j + shift].timestamp
                /\ after[j].turn = before[j + shift].turn - shift
                /\ shift \in {0, 1} ]_vars

\* the sixth append since the memory was empty has evicted the first turn, the
\* turn created second is now number 1, and a status was taken of that memory
C26_Witness ==
    /\ Len(appended) = max_memory_turns + 1
    /\ conversation_memory[1].timestamp = appended[2][3]
    /\ conversation_memory[1].user_query = appended[2][1]
    /\ conversation_memory[1].turn = 1
    /\ memory_report # None
    /\ memory_report[1].kind = "status"
    /\ memory_report[1].oldest_conversation = Some(appended[2][3])

\* C27: a call of get_response whose embedding was created appends exactly one
\* turn, holding the query and the answer text it returns, whether the answer
\* came from the model, from the template without a client, or from the
\* fallback after the model failed; a call whose embedding failed leaves the
\* conversation memory and the chat history as they were.
C27_OneTurnPerAnsweredCall ==
    [][ LET before == conversation_memory
            after == conversation_memory'
            shift == Len(before) + 1 - Len(after)
        IN  IF last_call'[1].embedding = "raises"
            THEN after = before /\ chat_history' = chat_history
            ELSE /\ Len(after) = Min(Len(before) + 1, max_memory_turns)
                 /\ after[Len(after)].user_query = last_call'[1].user_query
                 /\ after[Len(after)].response = last_result'[1].answer
                 /\ \A j \in 1..(Len(after) - 1) :
                        /\ after[j].user_query = before[j + shift].user_query
                        /\ after[j].response = before[j + shift].response
                        /\ after[j].timestamp = before[j + shift].timestamp ]_vars

\* the model failed on the second call: the fallback answer was returned and
\* is the response of the second turn
C27_Witness ==
    /\ last_call # None
    /\ last_call[1].llm = "raises"
    /\ Len(conversation_memory) = 2
    /\ conversation_memory[2].response = last_result[1].answer
    /\ conversation_memory[2].response.kind # "llm"
    /\ conversation_memory[2].user_query = last_call[1].user_query

\* C28: whatever the interleaving of two calls on one chatbot, when both have
\* returned no appended turn is lost (the memory holds the last
\* min(n, max_turns) appended turns in order), the length is at most max_turns
\* and the turn numbers are 1..length.
C28_InterleavedAppendsKeepMemorySound ==
    (update_calls # <<>> /\ \A t \in Threads : update_calls[t].pc = "returned") =>
        LET n == Len(appended)
            k == Min(n, max_memory_turns)
        IN  /\ Len(conversation_memory) = k
            /\ \A i \in 1..k :
                 /\ conversation_memory[i].timestamp = appended[n - k + i][3]
                 /\ conversation_memory[i].user_query = appended[n - k + i][1]
                 /\ conversation_memory[i].turn = i

\* C29: after any sequence of ingestion runs and single-record updates, every
\* stored vector carries the amount fields, equal to what the normalizer gives
\* on the record's text.
C29_StoredVectorsCarryAmountFields ==
    \A i \in 1..Len(vector_store) :
        /\ {"amount_value", "normalized_amount"} \subseteq DOMAIN vector_store[i].metadata
        /\ \E a \in {announcements[j] : j \in 1..Len(announcements)} :
             /\ VectorId(a.announcement_id) = vector_store[i].id
             /\ \E metadata \in {BuildAnnouncementMetadata(a, 0)} :
                  /\ vector_store[i].metadata.amount_value = metadata.amount_value
                  /\ vector_store[i].metadata.normalized_amount = metadata.normalized_amount

\* C30: for a fixed parsable application_period, when the analyzer is called
\* again at a later now, days_remaining has not increased, the status is the
\* same or one further along active, soon, urgent, today, expired (expired
\* stays expired), and is_applicable = not is_expired has not turned from
\* false to true.
C30_StatusOnlyMovesForward ==
    (earlier_info # None /\ earlier_info[1].status # "unknown") =>
        LET Stage(status) == CHOOSE k \in 1..5 :
                <<"active", "soon", "urgent", "today", "expired">>[k] = status
        IN  /\ deadline_info[1].status # "unknown"
            /\ deadline_info[1].days_remaining[1] <= earlier_info[1].days_remaining[1]
            /\ Stage(deadline_info[1].status) >= Stage(earlier_info[1].status)
            /\ earlier_info[1].is_expired => deadline_info[1].is_expired

\* a period was analysed on its deadline day and again after the deadline had
\* passed: the status went from today to expired
C30_Witness ==
    /\ earlier_info # None
    /\ earlier_info[1].status = "today"
    /\ deadline_info[1].status = "expired"
    /\ deadline_info[1].days_remaining[1] < earlier_info[1].days_remaining[1]

\* C10: when the call of the model fails while the search returned at least
\* one candidate, the answer of get_response is the template built from the
\* top reranked candidate, not the no-results template.
C10_LlmFailureAnswersFromTopCandidate ==
    ( /\ last_call # None
      /\ last_call[1].llm = "raises"
      /\ final_results[1] # <<>> )
    => /\ last_result[1].answer.kind = "template"
       /\ last_result[1].answer.top # None
       /\ last_result[1].answer.top[1].id = final_results[1][1].id

====
